---- MODULE Spec2Model ----
(***************************************************************************)
(* Resilience layer of aura-ai-therapy: RetryManager, CircuitBreaker and   *)
(* RateLimiter of src/utils/retryUtils.ts and ErrorService of              *)
(* src/services/errorService.ts, modelled as state machines.               *)
(*                                                                         *)
(* Strings are sequences of one-character strings, so that includes() and  *)
(* toLowerCase() are computed as the code computes them.                   *)
(***************************************************************************)
EXTENDS Integers, Sequences, FiniteSets, TLC

VARIABLES
    \* ---- one RetryManager.execute / executeWithTimeout call ----
    rpc,          \* position of the call: idle, calling, sleeping, returned, thrown
    config,       \* the merged options of the call (retryUtils.ts:52)
    attempt,      \* the loop variable of execute (retryUtils.ts:56)
    lastError,    \* the local lastError (retryUtils.ts:54)
    retryResult,  \* the RetryResult the call returned
    startTime,    \* the local startTime (retryUtils.ts:53)
    invocations,  \* how many times the operation fn was invoked
    running,      \* invocations of fn that have not completed yet
    resolvedValue,\* the value the operation resolved with, once it has
    lastFailure,  \* the failure of the latest attempt: what failed, with what message
    lastPredicate,\* the latest evaluation of config.shouldRetry, with its arguments
    onRetryLog,   \* attempt numbers handed to onRetry, in order
    delays,       \* the delays handed to sleep, in order
    \* ---- one CircuitBreaker and the execute calls in flight on it ----
    options,          \* constructor options (retryUtils.ts:160-164)
    state,            \* CircuitBreaker.state
    failureCount,     \* CircuitBreaker.failures
    lastFailureTime,  \* CircuitBreaker.lastFailureTime
    calls,            \* per caller: position and outcome of its execute call
    consecutive,      \* failed execute calls since the last success or reset
    resetFrom,        \* the state the latest reset() was called in, "none" before
    \* ---- one RateLimiter ----
    bucket,           \* constructor parameters: capacity, refillRate (tokens/second)
    tokens,           \* RateLimiter.tokens, a binary64 value
    lastRefill,       \* RateLimiter.lastRefill
    limiterCalls,     \* how many times RateLimiter.execute invoked fn
    limiterLast,      \* the latest call on the limiter and what it gave
    ticking,          \* the tokens of a bucket refilled by a timer, in thousandths
    \* ---- the ErrorService singleton and the store under 'app_errors' ----
    createConfig,     \* the argument of the createError call
    created,          \* the AppError createError returned
    nextId,           \* stands for crypto.randomUUID(): ids are fresh
    stored,           \* the parsed value under 'app_errors': the persisted history
    handlers,         \* ErrorService.errorHandlers: a Map from type to handler
    registryOps,      \* per type, the handler of the latest register call, "none"
                      \* before it and after an unregister call
    lastHandled,      \* the latest handleError call and what it did
    handledIds,       \* ids handed to handleError since the history was cleared
    \* ---- the page hosting the singleton ----
    singleton,        \* ErrorService.instance, getInstance calls, listeners installed
    dispatch,         \* the window event being dispatched to the listeners
    \* ---- a reader of the CircuitBreaker ----
    observed,         \* what the latest getState / getFailureCount call returned
    \* ---- the EnhancedGeminiService of the application ----
    facade,           \* ai, chat, isInitialized
    facadeBreaker,    \* the CircuitBreaker of the facade
    facadeCall,       \* the latest initialize / send call: position and outcome
    remote,           \* the remote API: the text it fails with
    \* ---- shared ----
    now               \* Date.now()

retryVars == <<rpc, config, attempt, lastError, retryResult, startTime, invocations,
               running, resolvedValue, lastFailure, lastPredicate, onRetryLog, delays>>
breakerVars == <<options, state, failureCount, lastFailureTime, calls, consecutive,
                 resetFrom>>
limiterVars == <<bucket, tokens, lastRefill, limiterCalls, limiterLast, ticking>>
serviceVars == <<createConfig, created, nextId, stored, handlers, registryOps,
                 lastHandled, handledIds>>
hostVars == <<singleton, dispatch>>
facadeVars == <<facade, facadeBreaker, facadeCall, remote>>
vars == <<retryVars, breakerVars, limiterVars, serviceVars, hostVars, facadeVars,
          observed, now>>

\* what the actions of one component leave alone
othersOfRetry == <<breakerVars, limiterVars, serviceVars, hostVars, facadeVars,
                   observed>>
othersOfBreaker == <<retryVars, limiterVars, serviceVars, hostVars, facadeVars,
                   observed>>
othersOfLimiter == <<retryVars, breakerVars, serviceVars, hostVars, facadeVars,
                   observed>>
othersOfHandleError == <<retryVars, breakerVars, limiterVars, observed, now>>
othersOfService == <<othersOfHandleError, hostVars, facadeVars>>

-----------------------------------------------------------------------------
(* Bounds of the model *)

MaxAttemptsBound == 3
JitterSteps == 2
MaxOpDuration == 1
MaxClock == 4
MaxThreshold == 2
MaxResetTimeout == 1
NumCallers == 2
MaxCapacity == 2
MaxHandled == 52
MaxErrors == 2
MaxGetInstance == 2
MaxEvents == 2
MaxChunks == 2
MaxTicks == 5
TickMillis == 100
FracBits == 62

\* the cap of storeError on the persisted history
HistoryLimit == 50

\* the cap of ErrorBoundary.reportError on the same history
BoundaryLimit == 10

-----------------------------------------------------------------------------
(* Strings *)

UpperChars == <<"A","B","C","D","E","F","G","H","I","J","K","L","M",
                "N","O","P","Q","R","S","T","U","V","W","X","Y","Z">>
LowerChars == <<"a","b","c","d","e","f","g","h","i","j","k","l","m",
                "n","o","p","q","r","s","t","u","v","w","x","y","z">>

\* String.prototype.toLowerCase, one character
LowerChar(c) ==
    IF \E i \in 1..Len(UpperChars) : UpperChars[i] = c
    THEN LowerChars[CHOOSE i \in 1..Len(UpperChars) : UpperChars[i] = c]
    ELSE c

ToLowerCase(s) == [i \in 1..Len(s) |-> LowerChar(s[i])]

\* String.prototype.includes
Includes(s, sub) ==
    \E i \in 0..(Len(s) - Len(sub)) : SubSeq(s, i + 1, i + Len(sub)) = sub

\* Math.min
Min(a, b) == IF a <= b THEN a ELSE b

DigitChars == <<"0","1","2","3","4","5","6","7","8","9">>

RECURSIVE NumberToString(_)
\* template-literal formatting of a non-negative integer
NumberToString(n) ==
    IF n < 10 THEN <<DigitChars[n + 1]>>
    ELSE NumberToString(n \div 10) \o <<DigitChars[(n % 10) + 1]>>

StrNetwork == <<"n","e","t","w","o","r","k">>
StrTimeout == <<"t","i","m","e","o","u","t">>
Str503 == <<"5","0","3">>
Str502 == <<"5","0","2">>
Str500 == <<"5","0","0">>
StrRateLimit == <<"r","a","t","e"," ","l","i","m","i","t">>
StrTooManyRequests == <<"t","o","o"," ","m","a","n","y"," ",
                        "r","e","q","u","e","s","t","s">>
StrUnknownError == <<"U","n","k","n","o","w","n"," ","e","r","r","o","r">>
StrCircuitOpen == <<"C","i","r","c","u","i","t"," ","b","r","e","a","k","e","r",
                    " ","i","s"," ","o","p","e","n">>
StrRateLimitExceeded == <<"R","a","t","e"," ","l","i","m","i","t"," ",
                          "e","x","c","e","e","d","e","d">>

\* messages of the errors the operation may throw
MsgNetworkDown == <<"N","e","t","w","o","r","k"," ","d","o","w","n">>
MsgBad == <<"b","a","d">>
MsgGatewayTimeout == <<"g","a","t","e","w","a","y"," ","t","i","m","e","o","u","t">>
ErrorMessages == {MsgNetworkDown, MsgBad, MsgGatewayTimeout}

\* the rejection of createTimeoutPromise
TimeoutMessage(timeoutMs) ==
    <<"O","p","e","r","a","t","i","o","n"," ","t","i","m","e","d"," ","o","u","t",
      " ","a","f","t","e","r"," ">> \o NumberToString(timeoutMs) \o <<"m","s">>

-----------------------------------------------------------------------------
(* RetryManager *)

\* the options a caller may pass; multipliers are rationals num/den
MaxAttemptsValues == 1..MaxAttemptsBound
DelaySettings ==
    { [baseDelay |-> 1000, maxDelay |-> 30000, backoffMultiplier |-> [num |-> 2, den |-> 1]],
      [baseDelay |-> 1000, maxDelay |-> 1500, backoffMultiplier |-> [num |-> 2, den |-> 1]],
      [baseDelay |-> 1, maxDelay |-> 30000, backoffMultiplier |-> [num |-> 3, den |-> 2]],
      [baseDelay |-> 2000, maxDelay |-> 10000, backoffMultiplier |-> [num |-> 3, den |-> 2]] }
TimeoutValues == {100}
Values == {"reply", "other reply"}

\* RetryOptions after the merge over defaultOptions. shouldRetry is "default" (the
\* caller gave none) or "caller"; wrapped says the call came through
\* executeWithTimeout, with timeoutMs. onRetry is the caller's observer (the default
\* one is an observer that never throws).
Configs ==
    { [maxAttempts |-> n, baseDelay |-> d.baseDelay, maxDelay |-> d.maxDelay,
       backoffMultiplier |-> d.backoffMultiplier, jitter |-> j, shouldRetry |-> p,
       wrapped |-> w, timeoutMs |-> t] :
      n \in MaxAttemptsValues, d \in DelaySettings, j \in BOOLEAN,
      p \in {"default", "caller"}, w \in BOOLEAN, t \in TimeoutValues }

NoResult == [success |-> FALSE, hasResult |-> FALSE, result |-> "", hasError |-> FALSE,
             error |-> <<>>, attempts |-> 0, totalDuration |-> 0]

\* no attempt has failed yet; no predicate was evaluated yet
NoFailure == [attempt |-> 0, message |-> <<>>, byTimer |-> FALSE]
NoPredicate == [attempt |-> 0, message |-> <<>>, consulted |-> FALSE, answer |-> FALSE]

\* defaultOptions.shouldRetry
DefaultShouldRetry(message) ==
    LET m == ToLowerCase(message) IN
        \/ Includes(m, StrNetwork)
        \/ Includes(m, StrTimeout)
        \/ Includes(m, Str503)
        \/ Includes(m, Str502)
        \/ Includes(m, Str500)
        \/ Includes(m, StrRateLimit)
        \/ Includes(m, StrTooManyRequests)

\* the shouldRetry that executeWithTimeout hands to execute; callerAnswer is what
\* retryOptions.shouldRetry returns when the caller gave one
TimeoutShouldRetry(cfg, message, callerAnswer) ==
    IF Includes(message, StrTimeout) THEN TRUE
    ELSE IF cfg.shouldRetry = "caller" THEN callerAnswer ELSE TRUE

\* whether evaluating config.shouldRetry calls the caller's predicate
ConsultsCaller(cfg, message) ==
    /\ cfg.shouldRetry = "caller"
    /\ cfg.wrapped => ~Includes(message, StrTimeout)

\* config.shouldRetry(lastError, attempt)
ShouldRetry(cfg, message, callerAnswer) ==
    IF cfg.wrapped THEN TimeoutShouldRetry(cfg, message, callerAnswer)
    ELSE IF cfg.shouldRetry = "caller" THEN callerAnswer
    ELSE DefaultShouldRetry(message)

RECURSIVE Pow(_, _)
Pow(b, e) == IF e = 0 THEN 1 ELSE b * Pow(b, e - 1)

CalculateDelayMutant(att, cfg, random) ==
    LET p0 == cfg.baseDelay * Pow(cfg.backoffMultiplier.num, att)
        q0 == Pow(cfg.backoffMultiplier.den, att)
        capped == p0 > cfg.maxDelay * q0
        p1 == IF capped THEN cfg.maxDelay ELSE p0
        q1 == IF capped THEN 1 ELSE q0
        p2 == IF cfg.jitter THEN p1 * (JitterSteps + random) ELSE p1
        q2 == IF cfg.jitter THEN q1 * 2 * JitterSteps ELSE q1
    IN  p2 \div q2

\* calculateDelay; random is Math.random() * JitterSteps, in 0..JitterSteps-1.
\* The delay is the rational p/q until Math.floor.
CalculateDelay(att, cfg, random) ==
    LET p0 == cfg.baseDelay * Pow(cfg.backoffMultiplier.num, att - 1)
        q0 == Pow(cfg.backoffMultiplier.den, att - 1)
        capped == p0 > cfg.maxDelay * q0
        p1 == IF capped THEN cfg.maxDelay ELSE p0
        q1 == IF capped THEN 1 ELSE q0
        p2 == IF cfg.jitter THEN p1 * (JitterSteps + random) ELSE p1
        q2 == IF cfg.jitter THEN q1 * 2 * JitterSteps ELSE q1
    IN  p2 \div q2

Randoms(cfg) == IF cfg.jitter THEN 0..(JitterSteps - 1) ELSE {0}

SuccessResultMutant(value, att, duration) ==
    [success |-> TRUE, hasResult |-> TRUE, result |-> value, hasError |-> FALSE,
     error |-> <<>>, attempts |-> att - 1, totalDuration |-> duration]

\* the object returned at retryUtils.ts:59-64
SuccessResult(value, att, duration) ==
    [success |-> TRUE, hasResult |-> TRUE, result |-> value, hasError |-> FALSE,
     error |-> <<>>, attempts |-> att, totalDuration |-> duration]

FailureResultMutant(error, cfg, duration) ==
    [success |-> FALSE, hasResult |-> FALSE, result |-> "", hasError |-> TRUE,
     error |-> StrUnknownError, attempts |-> cfg.maxAttempts, totalDuration |-> duration]

FailureResultStale(error, cfg, duration) ==
    [success |-> FALSE, hasResult |-> TRUE, result |-> "", hasError |-> TRUE,
     error |-> error, attempts |-> cfg.maxAttempts, totalDuration |-> duration]

\* the object returned at retryUtils.ts:87-92
FailureResult(error, cfg, duration) ==
    [success |-> FALSE, hasResult |-> FALSE, result |-> "", hasError |-> TRUE,
     error |-> error, attempts |-> cfg.maxAttempts, totalDuration |-> duration]

IsLastAttemptMutant(att, cfg) == att + 1 >= cfg.maxAttempts

\* "Don't retry on the last attempt"
IsLastAttempt(att, cfg) == att = cfg.maxAttempts

\* invocations of fn the timer has overtaken and that are still running
Abandoned == running - (IF rpc = "calling" THEN 1 ELSE 0)

RetryInit ==
    /\ rpc = "idle"
    /\ config = CHOOSE c \in Configs : TRUE
    /\ attempt = 0
    /\ lastError = <<>>
    /\ retryResult = NoResult
    /\ startTime = 0
    /\ invocations = 0
    /\ running = 0
    /\ resolvedValue = ""
    /\ lastFailure = NoFailure
    /\ lastPredicate = NoPredicate
    /\ onRetryLog = <<>>
    /\ delays = <<>>

\* execute / executeWithTimeout up to the first await fn()
Execute(cfg) ==
    /\ rpc = "idle"
    /\ config' = cfg
    /\ startTime' = now
    /\ lastError' = StrUnknownError
    /\ attempt' = 1
    /\ IF 1 <= cfg.maxAttempts
       THEN /\ rpc' = "calling"
            /\ invocations' = invocations + 1
            /\ running' = running + 1
            /\ retryResult' = retryResult
       ELSE /\ rpc' = "returned"
            /\ retryResult' = FailureResult(StrUnknownError, cfg, 0)
            /\ UNCHANGED <<invocations, running>>
    /\ UNCHANGED <<resolvedValue, lastFailure, lastPredicate, onRetryLog, delays, now>>
    /\ UNCHANGED othersOfRetry

\* await fn() resolves: retryUtils.ts:58-64
FnResolves(value, duration) ==
    /\ rpc = "calling"
    /\ config.wrapped => duration <= config.timeoutMs
    /\ now' = now + duration
    /\ retryResult' = SuccessResult(value, attempt, now' - startTime)
    /\ rpc' = "returned"
    /\ running' = running - 1
    /\ resolvedValue' = value
    /\ UNCHANGED <<config, attempt, lastError, startTime, invocations, lastFailure,
                   lastPredicate, onRetryLog, delays>>
    /\ UNCHANGED othersOfRetry

\* the catch block, retryUtils.ts:65-84, then the return at 87-92 after a break
Catch(message, byTimer, callerAnswer, observerThrows, random) ==
    /\ lastError' = message
    /\ lastFailure' = [attempt |-> attempt, message |-> message, byTimer |-> byTimer]
    /\ IF IsLastAttempt(attempt, config)
       THEN /\ rpc' = "returned"
            /\ retryResult' = FailureResult(message, config, now' - startTime)
            /\ UNCHANGED <<lastPredicate, onRetryLog, delays>>
       ELSE LET retry == ShouldRetry(config, message, callerAnswer) IN
            /\ lastPredicate' =
                  [attempt |-> attempt, message |-> message,
                   consulted |-> ConsultsCaller(config, message), answer |-> retry]
            /\ IF ~retry
               THEN /\ rpc' = "returned"
                    /\ retryResult' = FailureResult(message, config, now' - startTime)
                    /\ UNCHANGED <<onRetryLog, delays>>
               ELSE /\ onRetryLog' = Append(onRetryLog, attempt)
                    /\ retryResult' = retryResult
                    /\ IF observerThrows
                       THEN /\ rpc' = "thrown"
                            /\ delays' = delays
                       ELSE /\ rpc' = "sleeping"
                            /\ delays' = Append(delays,
                                   CalculateDelay(attempt, config, random))
    /\ UNCHANGED <<config, attempt, startTime, invocations, resolvedValue>>
    /\ UNCHANGED othersOfRetry

CallerAnswers(cfg, message) == IF ConsultsCaller(cfg, message) THEN BOOLEAN ELSE {FALSE}

\* await fn() rejects with an error of the operation
FnRejects(message, duration) ==
    /\ rpc = "calling"
    /\ config.wrapped => duration <= config.timeoutMs
    /\ now' = now + duration
    /\ running' = running - 1
    /\ \E callerAnswer \in CallerAnswers(config, message),
          observerThrows \in BOOLEAN, random \in Randoms(config) :
          Catch(message, FALSE, callerAnswer, observerThrows, random)

\* executeWithTimeout: the timer of createTimeoutPromise wins the race; the
\* invocation of fn keeps running
TimerFires ==
    /\ rpc = "calling"
    /\ config.wrapped
    /\ now' = now + config.timeoutMs
    /\ running' = running
    /\ \E callerAnswer \in CallerAnswers(config, TimeoutMessage(config.timeoutMs)),
          observerThrows \in BOOLEAN, random \in Randoms(config) :
          Catch(TimeoutMessage(config.timeoutMs), TRUE, callerAnswer, observerThrows,
                random)

\* await this.sleep(delay) ends, the loop increments attempt and calls fn again
SleepEnds ==
    /\ rpc = "sleeping"
    /\ now' = now + delays[Len(delays)]
    /\ attempt' = attempt + 1
    /\ IF attempt' <= config.maxAttempts
       THEN /\ rpc' = "calling"
            /\ invocations' = invocations + 1
            /\ running' = running + 1
            /\ retryResult' = retryResult
       ELSE /\ rpc' = "returned"
            /\ retryResult' = FailureResult(lastError, config, now' - startTime)
            /\ UNCHANGED <<invocations, running>>
    /\ UNCHANGED <<config, lastError, startTime, resolvedValue, lastFailure,
                   lastPredicate, onRetryLog, delays>>
    /\ UNCHANGED othersOfRetry

\* an invocation the timer overtook completes; Promise.race ignores it
AbandonedCompletes ==
    /\ Abandoned > 0
    /\ running' = running - 1
    /\ UNCHANGED <<rpc, config, attempt, lastError, retryResult, startTime,
                   invocations, resolvedValue, lastFailure, lastPredicate, onRetryLog,
                   delays, now>>
    /\ UNCHANGED othersOfRetry

RetryNext ==
    \/ \E cfg \in Configs : Execute(cfg)
    \/ \E value \in Values, duration \in 0..MaxOpDuration : FnResolves(value, duration)
    \/ \E message \in ErrorMessages, duration \in 0..MaxOpDuration :
          FnRejects(message, duration)
    \/ TimerFires
    \/ SleepEnds
    \/ AbandonedCompletes

-----------------------------------------------------------------------------
(* CircuitBreaker *)

Callers == 1..NumCallers
BreakerOptions == [failureThreshold : 1..MaxThreshold, resetTimeout : 0..MaxResetTimeout]

\* a caller that has made no call yet
NoCall == [pc |-> "idle", outcome |-> "none", error |-> <<>>, admittedAs |-> "closed",
           invoked |-> FALSE]

CooledDownMutant(t, last, opts) == t - last > opts.resetTimeout + 1

\* Date.now() - this.lastFailureTime > this.options.resetTimeout
CooledDown(t, last, opts) == t - last > opts.resetTimeout

ReachedThresholdMutant(n, opts) == n > opts.failureThreshold

\* this.failures >= this.options.failureThreshold
ReachedThreshold(n, opts) == n >= opts.failureThreshold

StateAfterFailureMutant(n, opts, current) == current

\* the state onFailure leaves
StateAfterFailure(n, opts, current) == IF ReachedThreshold(n, opts) THEN "open" ELSE current

\* the state onSuccess leaves
StateAfterSuccess == "closed"

BreakerInit ==
    /\ options \in BreakerOptions
    /\ state = "closed"
    /\ failureCount = 0
    /\ lastFailureTime = 0
    /\ calls = [c \in Callers |-> NoCall]
    /\ consecutive = 0
    /\ resetFrom = "none"

BreakerExecuteMutant(c) ==
    /\ calls[c].pc = "idle"
    /\ IF state = "open" /\ ~CooledDown(now, lastFailureTime, options)
       THEN /\ calls' = [calls EXCEPT ![c] =
                   [pc |-> "idle", outcome |-> "rejected", error |-> StrCircuitOpen,
                    admittedAs |-> state, invoked |-> FALSE]]
            /\ state' = state
            /\ lastFailureTime' = now
       ELSE /\ state' = IF state = "open" THEN "half-open" ELSE state
            /\ calls' = [calls EXCEPT ![c] =
                   [pc |-> "running", outcome |-> "none", error |-> <<>>,
                    admittedAs |-> state', invoked |-> TRUE]]
            /\ lastFailureTime' = lastFailureTime
    /\ UNCHANGED <<options, failureCount, consecutive, resetFrom, now>>
    /\ UNCHANGED othersOfBreaker

\* CircuitBreaker.execute up to await fn(), or to the throw of the open circuit
BreakerExecute(c) ==
    /\ calls[c].pc = "idle"
    /\ IF state = "open" /\ ~CooledDown(now, lastFailureTime, options)
       THEN /\ calls' = [calls EXCEPT ![c] =
                   [pc |-> "idle", outcome |-> "rejected", error |-> StrCircuitOpen,
                    admittedAs |-> state, invoked |-> FALSE]]
            /\ state' = state
       ELSE /\ state' = IF state = "open" THEN "half-open" ELSE state
            /\ calls' = [calls EXCEPT ![c] =
                   [pc |-> "running", outcome |-> "none", error |-> <<>>,
                    admittedAs |-> state', invoked |-> TRUE]]
    /\ UNCHANGED <<options, failureCount, lastFailureTime, consecutive, resetFrom, now>>
    /\ UNCHANGED othersOfBreaker

\* await fn() resolves: onSuccess, return result
BreakerFnResolves(c) ==
    /\ calls[c].pc = "running"
    /\ failureCount' = 0
    /\ state' = StateAfterSuccess
    /\ calls' = [calls EXCEPT ![c].pc = "idle", ![c].outcome = "ok"]
    /\ consecutive' = 0
    /\ UNCHANGED <<options, lastFailureTime, resetFrom, now>>
    /\ UNCHANGED othersOfBreaker

\* await fn() rejects: onFailure, rethrow
BreakerFnRejects(c, message) ==
    /\ calls[c].pc = "running"
    /\ failureCount' = failureCount + 1
    /\ lastFailureTime' = now
    /\ state' = StateAfterFailure(failureCount', options, state)
    /\ calls' = [calls EXCEPT ![c].pc = "idle", ![c].outcome = "failed",
                              ![c].error = message]
    /\ consecutive' = consecutive + 1
    /\ UNCHANGED <<options, resetFrom, now>>
    /\ UNCHANGED othersOfBreaker

BreakerResetMutant ==
    /\ failureCount' = 0
    /\ lastFailureTime' = 0
    /\ state' = state
    /\ consecutive' = 0
    /\ resetFrom' = state
    /\ UNCHANGED <<options, calls, now>>
    /\ UNCHANGED othersOfBreaker

\* CircuitBreaker.reset
BreakerReset ==
    /\ failureCount' = 0
    /\ lastFailureTime' = 0
    /\ state' = "closed"
    /\ consecutive' = 0
    /\ resetFrom' = state
    /\ UNCHANGED <<options, calls, now>>
    /\ UNCHANGED othersOfBreaker

\* time passes
Tick ==
    /\ now < MaxClock
    /\ now' = now + 1
    /\ UNCHANGED <<options, state, failureCount, lastFailureTime, calls, consecutive,
                   resetFrom>>
    /\ UNCHANGED othersOfBreaker

BreakerNext ==
    \/ \E c \in Callers : BreakerExecute(c)
    \/ \E c \in Callers : BreakerFnResolves(c)
    \/ \E c \in Callers : BreakerFnRejects(c, MsgBad)
    \/ BreakerReset
    \/ Tick

\* the concurrent execute calls alone, reset() never called
BreakerNextWithoutReset ==
    \/ \E c \in Callers : BreakerExecute(c)
    \/ \E c \in Callers : BreakerFnResolves(c)
    \/ \E c \in Callers : BreakerFnRejects(c, MsgBad)
    \/ Tick

NoRead == [op |-> "none", state |-> "none", count |-> 0]

BreakerGetStateMutant ==
    /\ state' = IF state = "open" /\ CooledDown(now, lastFailureTime, options)
                THEN "half-open" ELSE state
    /\ observed' = [op |-> "getState", state |-> state', count |-> 0]
    /\ UNCHANGED <<options, failureCount, lastFailureTime, calls, consecutive,
                   resetFrom, now>>
    /\ UNCHANGED <<retryVars, limiterVars, serviceVars, hostVars, facadeVars>>

\* CircuitBreaker.getState
BreakerGetState ==
    /\ observed' = [op |-> "getState", state |-> state, count |-> 0]
    /\ UNCHANGED <<breakerVars, now>>
    /\ UNCHANGED <<retryVars, limiterVars, serviceVars, hostVars, facadeVars>>

\* CircuitBreaker.getFailureCount
BreakerGetFailureCount ==
    /\ observed' = [op |-> "getFailureCount", state |-> "none", count |-> failureCount]
    /\ UNCHANGED <<breakerVars, now>>
    /\ UNCHANGED <<retryVars, limiterVars, serviceVars, hostVars, facadeVars>>

\* one caller using the breaker and reading it between its calls
BreakerReadNext ==
    \/ BreakerExecute(1)
    \/ BreakerFnResolves(1)
    \/ BreakerFnRejects(1, MsgBad)
    \/ BreakerReset
    \/ Tick
    \/ BreakerGetState
    \/ BreakerGetFailureCount

-----------------------------------------------------------------------------
(* RateLimiter. tokens is a JavaScript number, an IEEE 754 binary64 value: the *)
(* model keeps it as an integer part and FracBits binary places, and rounds    *)
(* each division, product and sum to 53 significant bits, to nearest, ties to  *)
(* even, as the code's arithmetic does. Time is in milliseconds.               *)

RefillRates == {1, 2}
BucketParams == [capacity : 1..MaxCapacity, refillRate : RefillRates]

NoLimiterCall == [op |-> "none", outcome |-> "none", error |-> <<>>, value |-> 0,
                  tickingOutcome |-> "none", tickingValue |-> 0]

\* the significand of a binary64 value
SignificandBits == 53

Zeros(n) == [i \in 1..n |-> 0]

\* the number n as a binary64 value
FromInteger(n) == [int |-> n, frac |-> Zeros(FracBits)]

RECURSIVE BitLength(_)
\* how many bits the integer n has
BitLength(n) == IF n = 0 THEN 0 ELSE 1 + BitLength(n \div 2)

\* how many 0 bits come before the first 1 bit
LeadingZeros(bits) ==
    IF \A k \in 1..Len(bits) : bits[k] = 0 THEN Len(bits)
    ELSE (CHOOSE k \in 1..Len(bits) :
             bits[k] = 1 /\ \A j \in 1..(k - 1) : bits[j] = 0) - 1

\* one unit added in the last place of bits, with the carry out of the first:
\* a bit changes when every bit after it is 1
Increment(bits) ==
    [bits |-> [k \in 1..Len(bits) |->
                  IF \A j \in (k + 1)..Len(bits) : bits[j] = 1
                  THEN 1 - bits[k] ELSE bits[k]],
     carry |-> IF \A j \in 1..Len(bits) : bits[j] = 1 THEN 1 ELSE 0]

\* the exact value int + 0.bits (plus less than one unit of the last place when
\* sticky) rounded to SignificandBits significant bits
RoundToDouble(int, bits, sticky) ==
    LET keep == IF int > 0 THEN SignificandBits - BitLength(int)
                ELSE LeadingZeros(bits) + SignificandBits
    IN  IF keep >= Len(bits)
        THEN [int |-> int, frac |-> SubSeq(bits, 1, FracBits)]
        ELSE LET kept == SubSeq(bits, 1, keep)
                 half == bits[keep + 1] = 1
                 more == sticky \/ \E k \in (keep + 2)..Len(bits) : bits[k] = 1
                 odd == kept[keep] = 1
                 up == Increment(kept)
             IN  IF half /\ (more \/ odd)
                 THEN [int |-> int + up.carry,
                       frac |-> up.bits \o Zeros(FracBits - keep)]
                 ELSE [int |-> int, frac |-> kept \o Zeros(FracBits - keep)]

RECURSIVE PowerOfTwoMod(_, _)
\* 2^k modulo den
PowerOfTwoMod(k, den) ==
    IF k = 0 THEN 1 % den
    ELSE LET half == PowerOfTwoMod(k \div 2, den)
         IN  IF k % 2 = 0 THEN (half * half) % den ELSE (2 * half * half) % den

\* what is left of r / den after its first k binary places, times 2^k * den
RemainderAfter(r, den, k) == (r * PowerOfTwoMod(k, den)) % den

\* the first n binary places of r / den, for r < den, and the remainder left
BinaryPlaces(r, den, n) ==
    [bits |-> [k \in 1..n |->
                  IF 2 * RemainderAfter(r, den, k - 1) >= den THEN 1 ELSE 0],
     rem |-> RemainderAfter(r, den, n)]

\* n / 1000 for an integer n
DividedBy1000(n) ==
    LET places == BinaryPlaces(n % 1000, 1000, FracBits + 2)
    IN  RoundToDouble(n \div 1000, places.bits, places.rem # 0)

\* the carry into binary place k of x + y: some later place has both bits set
\* and every place between has one
CarryInto(x, y, k) ==
    \E j \in (k + 1)..Len(x) :
        /\ x[j] = 1 /\ y[j] = 1
        /\ \A m \in (k + 1)..(j - 1) : x[m] + y[m] = 1

\* the sum of the binary places k.. of x and y, with the carry out of place k
SumFrom(x, y, k) ==
    [bits |-> [i \in 1..(Len(x) - k + 1) |->
                  (x[i + k - 1] + y[i + k - 1]
                     + (IF CarryInto(x, y, i + k - 1) THEN 1 ELSE 0)) % 2],
     carry |-> IF CarryInto(x, y, k - 1) THEN 1 ELSE 0]

\* a + b before rounding
ExactSum(a, b) ==
    LET sum == SumFrom(a.frac, b.frac, 1)
    IN  [int |-> a.int + b.int + sum.carry, frac |-> sum.bits]

\* a + b
Plus(a, b) ==
    LET sum == ExactSum(a, b)
    IN  RoundToDouble(sum.int, sum.frac, FALSE)

RECURSIVE ExactTimes(_, _)
\* a * r before rounding, for a non-negative integer r
ExactTimes(a, r) ==
    IF r = 0 THEN FromInteger(0)
    ELSE IF r = 1 THEN a
    ELSE ExactSum(ExactTimes(a, r - 1), a)

\* a * r
Times(a, r) ==
    LET product == ExactTimes(a, r)
    IN  RoundToDouble(product.int, product.frac, FALSE)

\* a < b
LessThan(a, b) ==
    \/ a.int < b.int
    \/ /\ a.int = b.int
       /\ \E k \in 1..FracBits :
             /\ a.frac[k] < b.frac[k]
             /\ \A j \in 1..(k - 1) : a.frac[j] = b.frac[j]

MathMinMutant(a, b) == b

\* Math.min(a, b)
MathMin(a, b) == IF LessThan(b, a) THEN b ELSE a

\* Math.floor(a)
Floor(a) == a.int

\* a - 1 for a >= 1: the difference is exact
Decrement(a) == [a EXCEPT !.int = @ - 1]

\* the tokens refill() leaves: Math.min(capacity, tokens + tokensToAdd)
Refilled(tok, last, t, b) ==
    MathMin(FromInteger(b.capacity),
            Plus(tok, Times(DividedBy1000(t - last), b.refillRate)))

HasTokenMutant(tok) == tok.int >= 0

\* this.tokens >= 1
HasToken(tok) == tok.int >= 1

\* a bucket of the same capacity and rate that a timer refills every TickMillis,
\* in exact thousandths of a token
TickingRefilled(tok, b) == Min(b.capacity * 1000, tok + TickMillis * b.refillRate)

LimiterInit ==
    /\ bucket \in BucketParams
    /\ tokens = FromInteger(bucket.capacity)
    /\ lastRefill = now
    /\ limiterCalls = 0
    /\ limiterLast = NoLimiterCall
    /\ ticking = bucket.capacity * 1000

\* RateLimiter.execute: tryConsume (refill, then take a token), then fn()
LimiterExecute ==
    LET available == Refilled(tokens, lastRefill, now, bucket)
        admitted == HasToken(available)
    IN  /\ lastRefill' = now
        /\ tokens' = IF admitted THEN Decrement(available) ELSE available
        /\ limiterCalls' = IF admitted THEN limiterCalls + 1 ELSE limiterCalls
        /\ limiterLast' =
               [op |-> "execute",
                outcome |-> IF admitted THEN "admitted" ELSE "rejected",
                error |-> IF admitted THEN <<>> ELSE StrRateLimitExceeded,
                value |-> 0,
                tickingOutcome |-> IF ticking >= 1000 THEN "admitted"
                                   ELSE "rejected",
                tickingValue |-> 0]
        /\ ticking' = IF ticking >= 1000 THEN ticking - 1000 ELSE ticking
        /\ UNCHANGED <<bucket, now>>
        /\ UNCHANGED othersOfLimiter

\* RateLimiter.getAvailableTokens: refill, then Math.floor(this.tokens)
LimiterGetAvailableTokens ==
    /\ lastRefill' = now
    /\ tokens' = Refilled(tokens, lastRefill, now, bucket)
    /\ limiterLast' = [op |-> "getAvailableTokens", outcome |-> "returned",
                       error |-> <<>>, value |-> Floor(tokens'),
                       tickingOutcome |-> "returned",
                       tickingValue |-> ticking \div 1000]
    /\ UNCHANGED <<bucket, limiterCalls, ticking, now>>
    /\ UNCHANGED othersOfLimiter

\* time passes
LimiterTick ==
    /\ now < MaxTicks * TickMillis
    /\ now' = now + TickMillis
    /\ ticking' = TickingRefilled(ticking, bucket)
    /\ UNCHANGED <<bucket, tokens, lastRefill, limiterCalls, limiterLast>>
    /\ UNCHANGED othersOfLimiter

LimiterNext ==
    \/ LimiterExecute
    \/ LimiterGetAvailableTokens
    \/ LimiterTick

-----------------------------------------------------------------------------
(* ErrorService: createError and the two functions it calls *)

ErrorTypes == {"network", "api", "audio", "speech_recognition", "initialization",
               "validation", "unknown"}
ErrorSeverities == {"low", "medium", "high", "critical"}

\* values a caller can pass through a cast: not members of the enumerations
OtherTypes == {"unknown_type", "constructor"}
OtherSeverities == {"fatal", "constructor"}

\* names every object literal inherits from Object.prototype
ObjectPrototypeKeys == {"constructor", "toString"}
\* what a property read gives for such a name: a function, which is truthy
InheritedMember == "[inherited from Object.prototype]"

MsgHttp503 == <<"H","T","T","P"," ","5","0","3">>
MsgBadGateway == <<"5","0","2"," ","B","a","d"," ","G","a","t","e","w","a","y">>
OriginalMessages == {StrRateLimitExceeded, MsgGatewayTimeout, MsgHttp503,
                     MsgBadGateway, MsgBad}

NoOriginal == [present |-> FALSE, message |-> <<>>]
Originals == {NoOriginal} \cup [present : {TRUE}, message : OriginalMessages]

\* config.retryable: undefined, or a boolean
RetryableUnset == [given |-> FALSE, value |-> FALSE]
RetryableArgs == {RetryableUnset} \cup [given : {TRUE}, value : BOOLEAN]

CreateConfigs == [type : ErrorTypes \cup OtherTypes,
                  severity : ErrorSeverities \cup OtherSeverities,
                  message : {"Request failed"},
                  original : Originals,
                  retryable : RetryableArgs]

IsRetryableErrorMutant(type, originalError) ==
    \/ type \in {"network", "audio", "speech_recognition"}
    \/ /\ type = "api"
       /\ originalError.present
       /\ \/ Includes(originalError.message, StrTimeout)
          \/ Includes(originalError.message, Str503)
          \/ Includes(originalError.message, Str502)
          \/ Includes(originalError.message, StrRateLimit)

\* ErrorService.isRetryableError
IsRetryableError(type, originalError) ==
    IF type = "network" THEN TRUE
    ELSE IF type = "api" /\ originalError.present
    THEN LET message == ToLowerCase(originalError.message)
         IN  \/ Includes(message, StrTimeout)
             \/ Includes(message, Str503)
             \/ Includes(message, Str502)
             \/ Includes(message, StrRateLimit)
    ELSE IF type = "audio" \/ type = "speech_recognition" THEN TRUE
    ELSE FALSE

\* the messages object of generateUserMessage
UserMessages ==
    [t \in ErrorTypes |->
      CASE t = "network" ->
             [low |-> "Connection is a bit slow. Please wait...",
              medium |-> "Network connection issue. Trying to reconnect...",
              high |-> "Unable to connect. Please check your internet connection.",
              critical |-> "No network connection. Please check your internet and try again."]
        [] t = "api" ->
             [low |-> "Service is responding slowly. Please wait...",
              medium |-> "Service temporarily unavailable. Retrying...",
              high |-> "Unable to reach the AI service. Please try again.",
              critical |-> "AI service is currently unavailable. Please try again later."]
        [] t = "audio" ->
             [low |-> "Audio playback interrupted. Continuing...",
              medium |-> "Audio issue detected. Switching to text mode...",
              high |-> "Unable to play audio. Please check your speakers.",
              critical |-> "Audio system unavailable. Text mode only."]
        [] t = "speech_recognition" ->
             [low |-> "Having trouble hearing you. Please speak clearly...",
              medium |-> "Speech recognition interrupted. Please try again...",
              high |-> "Unable to access microphone. Please check permissions.",
              critical |-> "Speech recognition unavailable. Please use text input."]
        [] t = "initialization" ->
             [low |-> "Starting up... Please wait.",
              medium |-> "Setup taking longer than expected...",
              high |-> "Unable to start session. Please refresh the page.",
              critical |-> "Startup failed. Please check your API key and refresh."]
        [] t = "validation" ->
             [low |-> "Please check your input.",
              medium |-> "Invalid input detected. Please try again.",
              high |-> "Unable to process request. Please check your input.",
              critical |-> "Request blocked due to invalid input."]
        [] t = "unknown" ->
             [low |-> "Minor issue detected. Continuing...",
              medium |-> "Something went wrong. Trying to recover...",
              high |-> "Unexpected error occurred. Please try again.",
              critical |-> "Critical error. Please refresh the page."]]

FallbackMessage == "An error occurred. Please try again."

\* ErrorService.generateUserMessage: messages[type]?.[severity] || fallback.
\* A property read finds own properties first and inherited ones next; a name
\* found nowhere gives undefined, which ?. and || turn into the fallback.
GenerateUserMessage(type, severity) ==
    IF type \in DOMAIN UserMessages
    THEN IF severity \in DOMAIN UserMessages[type] THEN UserMessages[type][severity]
         ELSE IF severity \in ObjectPrototypeKeys THEN InheritedMember
         ELSE FallbackMessage
    ELSE IF type \in ObjectPrototypeKeys /\ severity \in ObjectPrototypeKeys
    THEN InheritedMember
    ELSE FallbackMessage

NoAppError == [id |-> 0, type |-> "none", severity |-> "none", message |-> "",
               original |-> NoOriginal, timestamp |-> 0, retryable |-> FALSE,
               userMessage |-> ""]

\* ErrorService.createError
CreateError(cfg, id, t) ==
    [id |-> id,
     type |-> cfg.type,
     severity |-> cfg.severity,
     message |-> cfg.message,
     original |-> cfg.original,
     timestamp |-> t,
     retryable |-> IF cfg.retryable.given THEN cfg.retryable.value
                   ELSE IsRetryableError(cfg.type, cfg.original),
     userMessage |-> GenerateUserMessage(cfg.type, cfg.severity)]

\* no handler registered, no history stored, nothing handled yet
NoHandled == [id |-> 0, type |-> "none", severity |-> "none", storage |-> "none",
              invoked |-> <<>>, handlerThrew |-> FALSE, returned |-> TRUE,
              escalated |-> FALSE]

ServiceFresh ==
    /\ created = NoAppError
    /\ nextId = 1
    /\ stored = <<>>
    /\ handlers = [t \in {} |-> "h1"]
    /\ registryOps = [t \in ErrorTypes |-> "none"]
    /\ lastHandled = NoHandled
    /\ handledIds = <<>>

CreateInit ==
    /\ createConfig \in CreateConfigs
    /\ ServiceFresh

\* one createError call on the configuration drawn
CreateErrorCall ==
    /\ created = NoAppError
    /\ created' = CreateError(createConfig, nextId, now)
    /\ nextId' = nextId + 1
    /\ UNCHANGED <<createConfig, stored, handlers, registryOps, lastHandled, handledIds>>
    /\ UNCHANGED othersOfService

CreateNext == CreateErrorCall

-----------------------------------------------------------------------------
(* ErrorService: handleError, the persisted history and the handler registry *)

Handlers == {"h1", "h2"}
HandlerTypes == {"api", "network"}

\* what localStorage does during one handleError call
StorageModes == {"ok", "readFails", "writeFails"}

\* the entry storeError pushes, as JSON keeps it: originalError flattened to
\* name and message (the stack is not modelled)
StoredEntry(error) ==
    [id |-> error.id,
     type |-> error.type,
     severity |-> error.severity,
     message |-> error.message,
     timestamp |-> error.timestamp,
     retryable |-> error.retryable,
     userMessage |-> error.userMessage,
     originalError |-> IF error.original.present
                       THEN [present |-> TRUE, name |-> "Error",
                             message |-> error.original.message]
                       ELSE [present |-> FALSE, name |-> "", message |-> <<>>]]

\* ErrorService.getStoredErrors: [] when getItem or JSON.parse throws
GetStoredErrors(mode) == IF mode = "readFails" THEN <<>> ELSE stored

KeepLastMutant(errors) ==
    IF Len(errors) > HistoryLimit THEN SubSeq(errors, 1, HistoryLimit) ELSE errors

\* if (errors.length > 50) errors.splice(0, errors.length - 50)
KeepLast(errors) ==
    IF Len(errors) > HistoryLimit
    THEN SubSeq(errors, Len(errors) - HistoryLimit + 1, Len(errors))
    ELSE errors

HandlerFailureEscapesMutant(threw) == threw

\* try { handler(error) } catch (handlerError) { console.error(...) }
HandlerFailureEscapes(threw) == FALSE

IsCriticalMutant(severity) == severity \in {"high", "critical"}

\* error.severity === ErrorSeverity.CRITICAL
IsCritical(severity) == severity = "critical"

MapSetMutant(map, key, value) ==
    IF key \in DOMAIN map THEN map
    ELSE [k \in DOMAIN map \cup {key} |-> IF k = key THEN value ELSE map[k]]

\* Map.prototype.set
MapSet(map, key, value) ==
    [k \in DOMAIN map \cup {key} |-> IF k = key THEN value ELSE map[k]]

\* Map.prototype.delete
MapDelete(map, key) == [k \in DOMAIN map \ {key} |-> map[k]]

\* ErrorService.handleError on the error createError builds from cfg, with
\* storeError and reportError
HandleError(cfg, mode, throws) ==
    LET error == CreateError(cfg, nextId, now)
        errors == KeepLast(Append(GetStoredErrors(mode), StoredEntry(error)))
        registered == error.type \in DOMAIN handlers
        threw == registered /\ throws
        escaped == HandlerFailureEscapes(threw)
    IN  /\ throws => registered
        /\ stored' = IF mode = "writeFails" THEN stored ELSE errors
        /\ lastHandled' = [id |-> error.id,
                           type |-> error.type,
                           severity |-> error.severity,
                           storage |-> mode,
                           invoked |-> IF registered THEN <<handlers[error.type]>>
                                       ELSE <<>>,
                           handlerThrew |-> threw,
                           returned |-> ~escaped,
                           escalated |-> ~escaped /\ IsCritical(error.severity)]
        /\ handledIds' = Append(handledIds, error.id)
        /\ nextId' = nextId + 1
        /\ UNCHANGED <<createConfig, created, handlers, registryOps>>
        /\ UNCHANGED othersOfHandleError

\* ErrorService.clearStoredErrors
ClearStoredErrors ==
    /\ stored' = <<>>
    /\ handledIds' = <<>>
    /\ UNCHANGED <<createConfig, created, nextId, handlers, registryOps, lastHandled>>
    /\ UNCHANGED othersOfService

\* ErrorService.registerErrorHandler
RegisterErrorHandler(type, handler) ==
    /\ handlers' = MapSet(handlers, type, handler)
    /\ registryOps' = [registryOps EXCEPT ![type] = handler]
    /\ UNCHANGED <<createConfig, created, nextId, stored, lastHandled, handledIds>>
    /\ UNCHANGED othersOfService

\* ErrorService.unregisterErrorHandler
UnregisterErrorHandler(type) ==
    /\ handlers' = MapDelete(handlers, type)
    /\ registryOps' = [registryOps EXCEPT ![type] = "none"]
    /\ UNCHANGED <<createConfig, created, nextId, stored, lastHandled, handledIds>>
    /\ UNCHANGED othersOfService

\* the errors of one run of the history: all of the kind drawn at the start
HistoryConfigs ==
    {[type |-> "api", severity |-> "high", message |-> "Request failed",
      original |-> [present |-> TRUE, message |-> MsgGatewayTimeout],
      retryable |-> RetryableUnset],
     [type |-> "validation", severity |-> "critical", message |-> "Request failed",
      original |-> NoOriginal, retryable |-> RetryableUnset]}

HistoryInit ==
    /\ createConfig \in HistoryConfigs
    /\ ServiceFresh

\* handleError with the store working and no handler registered
HistoryHandle ==
    /\ nextId <= MaxHandled
    /\ HandleError(createConfig, "ok", FALSE)
    /\ UNCHANGED <<hostVars, facadeVars>>

HistoryNext ==
    \/ HistoryHandle
    \/ ClearStoredErrors

\* ErrorBoundary.reportError: the report it builds (stack and userAgent are not
\* modelled)
ErrorReport(t) ==
    [message |-> "Render failed", componentStack |-> "in App", timestamp |-> t,
     url |-> "/"]

\* the entry was written by ErrorService.storeError
IsAppError(entry) == "id" \in DOMAIN entry

\* if (existingErrors.length > 10) existingErrors.splice(0, length - 10)
KeepLastReports(errors) ==
    IF Len(errors) > BoundaryLimit
    THEN SubSeq(errors, Len(errors) - BoundaryLimit + 1, Len(errors))
    ELSE errors

\* ErrorBoundary.reportError with the store working: it appends its report under
\* 'app_errors'. A run holds one report in the history at a time.
BoundaryReport ==
    /\ \A i \in 1..Len(stored) : IsAppError(stored[i])
    /\ stored' = KeepLastReports(Append(stored, ErrorReport(now)))
    /\ UNCHANGED <<createConfig, created, nextId, handlers, registryOps, lastHandled,
                   handledIds>>
    /\ UNCHANGED othersOfService

\* the two writers of 'app_errors'
SharedStoreNext ==
    \/ HistoryHandle
    \/ ClearStoredErrors
    \/ BoundaryReport

ServiceConfigs == [type : ErrorTypes, severity : {"high", "critical"},
                   message : {"Request failed"}, original : {NoOriginal},
                   retryable : {RetryableUnset}]

ServiceHandle(cfg, mode, throws) ==
    /\ nextId <= MaxErrors
    /\ HandleError(cfg, mode, throws)
    /\ UNCHANGED <<hostVars, facadeVars>>

ServiceNext ==
    \/ \E cfg \in ServiceConfigs, mode \in StorageModes, throws \in BOOLEAN :
          ServiceHandle(cfg, mode, throws)
    \/ \E type \in HandlerTypes, handler \in Handlers : RegisterErrorHandler(type, handler)
    \/ \E type \in HandlerTypes : UnregisterErrorHandler(type)

ServiceIdle ==
    /\ createConfig = CHOOSE cfg \in CreateConfigs : TRUE
    /\ ServiceFresh

-----------------------------------------------------------------------------
(* ErrorService.getInstance and the listeners its constructor installs *)

EventKinds == {"error", "unhandledrejection"}

SingletonFresh == [instance |-> FALSE, calls |-> 0, listeners |-> 0]
NoDispatch == [kind |-> "none", installed |-> FALSE, pending |-> 0, handled |-> 0,
               events |-> 0]

NeedsInstanceMutant(instance) == TRUE

\* if (!ErrorService.instance)
NeedsInstance(instance) == ~instance

\* the createError argument of each listener; event.message is 'Uncaught error'
\* and event.error / event.reason an Error
EventConfig(kind) ==
    [type |-> "unknown",
     severity |-> "high",
     message |-> IF kind = "error" THEN "Uncaught error"
                 ELSE "Unhandled promise rejection",
     original |-> [present |-> TRUE, message |-> MsgBad],
     retryable |-> RetryableUnset]

\* ErrorService.getInstance; the constructor runs setupGlobalErrorHandlers, which
\* adds one listener for each kind of event
GetInstance ==
    /\ dispatch.pending = 0
    /\ singleton.calls < MaxGetInstance
    /\ singleton' = IF NeedsInstance(singleton.instance)
                    THEN [instance |-> TRUE, calls |-> singleton.calls + 1,
                          listeners |-> singleton.listeners + 1]
                    ELSE [singleton EXCEPT !.calls = @ + 1]
    /\ UNCHANGED <<dispatch, serviceVars, othersOfHandleError, facadeVars>>

\* the window dispatches an error or unhandledrejection event: every listener
\* installed for it is going to run
WindowEvent(kind) ==
    /\ dispatch.pending = 0
    /\ dispatch.events < MaxEvents
    /\ dispatch' = [kind |-> kind, installed |-> singleton.instance,
                    pending |-> singleton.listeners, handled |-> 0,
                    events |-> dispatch.events + 1]
    /\ UNCHANGED <<singleton, serviceVars, othersOfHandleError, facadeVars>>

\* one listener runs: createError, then handleError
ListenerRuns(throws) ==
    /\ dispatch.pending > 0
    /\ HandleError(EventConfig(dispatch.kind), "ok", throws)
    /\ dispatch' = [dispatch EXCEPT !.pending = @ - 1, !.handled = @ + 1]
    /\ UNCHANGED <<singleton, facadeVars>>

\* registerErrorHandler / unregisterErrorHandler on the instance getInstance gave
RegisterOnInstance(type, handler) ==
    /\ singleton.instance /\ dispatch.pending = 0
    /\ RegisterErrorHandler(type, handler)

UnregisterOnInstance(type) ==
    /\ singleton.instance /\ dispatch.pending = 0
    /\ UnregisterErrorHandler(type)

GlobalNext ==
    \/ GetInstance
    \/ \E kind \in EventKinds : WindowEvent(kind)
    \/ \E throws \in BOOLEAN : ListenerRuns(throws)
    \/ \E handler \in Handlers : RegisterOnInstance("unknown", handler)
    \/ UnregisterOnInstance("unknown")

-----------------------------------------------------------------------------
(* EnhancedGeminiService: the facade over the remote chat API *)

MsgApiKeyRequired ==
    <<"A","P","I"," ","k","e","y"," ","i","s"," ","r","e","q","u","i","r","e",
      "d">>
MsgInitializeFailed ==
    <<"F","a","i","l","e","d"," ","t","o"," ","i","n","i","t","i","a","l","i",
      "z","e"," ","G","e","m","i","n","i"," ","s","e","r","v","i","c","e">>
MsgNotInitialized ==
    <<"S","e","r","v","i","c","e"," ","n","o","t"," ","i","n","i","t","i","a",
      "l","i","z","e","d">>
MsgCreateChatFailed ==
    <<"F","a","i","l","e","d"," ","t","o"," ","c","r","e","a","t","e"," ","c",
      "h","a","t"," ","s","e","s","s","i","o","n">>
MsgSendFailed ==
    <<"F","a","i","l","e","d"," ","t","o"," ","s","e","n","d"," ","m","e","s",
      "s","a","g","e"," ","t","o"," ","A","I">>
MsgStreamSendFailed ==
    <<"F","a","i","l","e","d"," ","t","o"," ","s","e","n","d"," ","s","t","r",
      "e","a","m","i","n","g"," ","m","e","s","s","a","g","e"," ","t","o"," ",
      "A","I">>
MsgStreamProcessing ==
    <<"S","t","r","e","a","m"," ","p","r","o","c","e","s","s","i","n","g"," ",
      "e","r","r","o","r">>
MsgDecodeFailed ==
    <<"F","a","i","l","e","d"," ","t","o"," ","d","e","c","o","d","e"," ","a",
      "u","d","i","o"," ","d","a","t","a">>
MsgRetryingMessage ==
    <<"R","e","t","r","y","i","n","g"," ","m","e","s","s","a","g","e"," ","s",
      "e","n","d"," ","(","a","t","t","e","m","p","t"," ">>
MsgRetryingStream ==
    <<"R","e","t","r","y","i","n","g"," ","s","t","r","e","a","m"," ","s","e",
      "n","d"," ","(","a","t","t","e","m","p","t"," ">>
StrAuthentication ==
    <<"a","u","t","h","e","n","t","i","c","a","t","i","o","n">>
StrUnauthorized ==
    <<"u","n","a","u","t","h","o","r","i","z","e","d">>
MsgInvalidCharacter ==
    <<"I","n","v","a","l","i","d"," ","c","h","a","r","a","c","t","e","r">>
StrApiHighUserMessage ==
    <<"U","n","a","b","l","e"," ","t","o"," ","r","e","a","c","h"," ","t","h",
      "e"," ","A","I"," ","s","e","r","v","i","c","e","."," ","P","l","e","a",
      "s","e"," ","t","r","y"," ","a","g","a","i","n",".">>

\* geminiConfig: what the application constructs its facade with
GeminiConfig == [maxRetries |-> 3, timeout |-> 30000]

\* the options the constructor gives its CircuitBreaker
FacadeBreakerOptions == [failureThreshold |-> 5, resetTimeout |-> 30000]

\* RetryManager.defaultOptions
DefaultOptions ==
    [maxAttempts |-> 3, baseDelay |-> 1000, maxDelay |-> 30000,
     backoffMultiplier |-> [num |-> 2, den |-> 1], jitter |-> TRUE,
     shouldRetry |-> "default"]

\* the options retryAPICall writes before the caller's
ApiRetryOptions ==
    [maxAttempts |-> 5, baseDelay |-> 2000,
     backoffMultiplier |-> [num |-> 3, den |-> 2], maxDelay |-> 10000,
     shouldRetry |-> "api"]

SpreadMutant(under, over) == under @@ over

\* { ...under, ...over }: a key of over replaces the same key of under
Spread(under, over) == over @@ under

\* retryAPICall(fn, options), down to the merge in RetryManager.execute
RetryAPICall(opts) == Spread(DefaultOptions, Spread(ApiRetryOptions, opts))

\* the shouldRetry retryAPICall installs
ApiShouldRetry(message) ==
    LET m == ToLowerCase(message) IN
        \/ Includes(m, StrRateLimit)
        \/ Includes(m, StrTooManyRequests)
        \/ Includes(m, Str503)
        \/ Includes(m, Str502)
        \/ Includes(m, StrTimeout)

\* this.config.maxRetries || 3
MaxRetriesOr3(cfg) == IF cfg.maxRetries # 0 THEN cfg.maxRetries ELSE 3

\* the options of the probe of testConnection and of the two sends
ProbeRetryConfig == RetryAPICall([maxAttempts |-> 3, baseDelay |-> 1000])
SendRetryConfig ==
    RetryAPICall([maxAttempts |-> MaxRetriesOr3(GeminiConfig), baseDelay |-> 2000])
RetryConfigOf(op) == IF op = "initialize" THEN ProbeRetryConfig ELSE SendRetryConfig

SendOps == {"sendMessage", "sendMessageStream"}
ApiKeys == {"", "key"}
AudioKinds == {"none", "valid", "invalid"}

\* the texts the remote API fails with; one run of the model has one of them
RemoteErrors == {StrRateLimitExceeded, MsgHttp503, MsgBad}

FacadeApiHandler == "facadeApi"
FacadeNetworkHandler == "facadeNetwork"

\* the condition of the handler registered for ErrorType.API
ApiHandlerResets(message) ==
    Includes(message, StrAuthentication) \/ Includes(message, StrUnauthorized)

\* the createError arguments of the facade
InitError(severity, message, original) ==
    [type |-> "initialization", severity |-> severity, message |-> message,
     original |-> original, retryable |-> RetryableUnset]

ApiError(severity, message, raw) ==
    [type |-> "api", severity |-> severity, message |-> message,
     original |-> [present |-> TRUE, message |-> raw], retryable |-> RetryableUnset]

RetryNotice(op, att, raw) ==
    ApiError("medium",
             (IF op = "sendMessage" THEN MsgRetryingMessage ELSE MsgRetryingStream)
                 \o NumberToString(att) \o <<")">>,
             raw)

SendFailure(op, raw) ==
    ApiError("high",
             IF op = "sendMessage" THEN MsgSendFailed ELSE MsgStreamSendFailed, raw)

StreamFailure(raw) == ApiError("high", MsgStreamProcessing, raw)

DecodeFailure ==
    [type |-> "audio", severity |-> "medium", message |-> MsgDecodeFailed,
     original |-> [present |-> TRUE, message |-> MsgInvalidCharacter],
     retryable |-> RetryableUnset]

\* appError.userMessage of the error createError builds from cfg
UserMessageOf(cfg) == CreateError(cfg, nextId, now).userMessage

\* new Error(appError.userMessage).message, as characters
MessageChars(text) ==
    IF text = UserMessages["api"].high THEN StrApiHighUserMessage ELSE <<>>

\* the CircuitBreaker of the facade
FacadeBreakerFresh == [state |-> "closed", failures |-> 0, lastFailureTime |-> 0]

BreakerRejectsMutant(b, t) == FALSE

\* the circuit is open and Date.now() is within the cooldown
BreakerRejects(b, t) ==
    b.state = "open" /\ ~CooledDown(t, b.lastFailureTime, FacadeBreakerOptions)

BreakerAdmits(b) == [b EXCEPT !.state = IF @ = "open" THEN "half-open" ELSE @]

BreakerAfterSuccessMutant(b) == [b EXCEPT !.state = StateAfterSuccess]

BreakerAfterSuccess(b) == [b EXCEPT !.failures = 0, !.state = StateAfterSuccess]

BreakerAfterFailure(b, t) ==
    [state |-> StateAfterFailure(b.failures + 1, FacadeBreakerOptions, b.state),
     failures |-> b.failures + 1,
     lastFailureTime |-> t]

\* what the handler of ErrorType.API, when still registered, does to the breaker
AfterApiHandler(b, cfg) ==
    IF /\ cfg.type = "api"
       /\ "api" \in DOMAIN handlers
       /\ handlers["api"] = FacadeApiHandler
       /\ ApiHandlerResets(cfg.message)
    THEN FacadeBreakerFresh
    ELSE b

FacadeFresh == [ai |-> FALSE, chat |-> FALSE, isInitialized |-> FALSE]

NoFacadeCall ==
    [op |-> "none", pc |-> "idle", attempt |-> 0, invocations |-> 0, delay |-> 0,
     delays |-> <<>>, routed |-> 0, admittedAs |-> "none", upstream |-> <<>>,
     yielded |-> <<>>, thrown |-> ""]

StartCall(op) == [NoFacadeCall EXCEPT !.op = op]

\* the call in progress is between two of its steps
InFlight == facadeCall.pc \in {"calling", "sleeping", "streaming", "rethrowing"}

\* a run of the model follows one operation of the facade from the state drawn
CanStart == facadeCall.pc = "idle"

\* errorService.handleError(createError(cfg)): the store works, the handlers
\* of the facade do not throw
Route(cfg) == HandleError(cfg, "ok", FALSE) /\ UNCHANGED hostVars

NoRoute == UNCHANGED <<serviceVars, othersOfHandleError, hostVars>>

ThrowsMutant(call, cfg) ==
    [call EXCEPT !.pc = "thrown", !.routed = @ + 1, !.thrown = FallbackMessage]

\* handleError(appError); throw new Error(appError.userMessage)
Throws(call, cfg) ==
    [call EXCEPT !.pc = "thrown", !.routed = @ + 1, !.thrown = UserMessageOf(cfg)]

\* the facade after initialize
FacadeInitialized == [FacadeFresh EXCEPT !.ai = TRUE, !.isInitialized = TRUE]

\* the facade after initialize and a first send
FacadeInService == [FacadeFresh EXCEPT !.ai = TRUE, !.chat = TRUE,
                                      !.isInitialized = TRUE]

\* the breaker after j failed sends in a row, the last of them at time 0
FacadeBreakerAfter(j) ==
    [state |-> StateAfterFailure(j, FacadeBreakerOptions, "closed"),
     failures |-> j, lastFailureTime |-> 0]

\* the numbers of failed sends in a row the facade in service starts with
EarlierFailures ==
    {0, FacadeBreakerOptions.failureThreshold - 1, FacadeBreakerOptions.failureThreshold}

\* the facade the application has constructed: the handlers of setupErrorHandlers
\* are registered. Either nothing was called yet, or the facade is in service
\* after initialize, or after j failed sends in a row, with the history cleared
\* since (clearStoredErrors).
FacadeInit ==
    /\ remote \in [error : RemoteErrors]
    /\ \/ facade = FacadeFresh /\ facadeBreaker = FacadeBreakerFresh
       \/ facade = FacadeInitialized /\ facadeBreaker = FacadeBreakerFresh
       \/ \E j \in EarlierFailures :
             facade = FacadeInService /\ facadeBreaker = FacadeBreakerAfter(j)
    /\ facadeCall = NoFacadeCall
    /\ created = NoAppError
    /\ createConfig = CHOOSE c \in CreateConfigs : TRUE
    /\ nextId = 1
    /\ stored = <<>>
    /\ handlers = [t \in {"api", "network"} |->
                      IF t = "api" THEN FacadeApiHandler ELSE FacadeNetworkHandler]
    /\ registryOps = [t \in ErrorTypes |->
                         IF t = "api" THEN FacadeApiHandler
                         ELSE IF t = "network" THEN FacadeNetworkHandler
                         ELSE "none"]
    /\ lastHandled = NoHandled
    /\ handledIds = <<>>
    /\ singleton = [instance |-> TRUE, calls |-> 1, listeners |-> 1]
    /\ dispatch = NoDispatch
    /\ observed = NoRead

MissingKeyMutant(apiKey) == FALSE

\* !apiKey
MissingKey(apiKey) == apiKey = ""

\* initialize(apiKey), up to the first remote call of testConnection
FacadeInitialize(apiKey) ==
    /\ CanStart
    /\ IF MissingKey(apiKey)
       THEN LET cfg == InitError("critical", MsgApiKeyRequired, NoOriginal)
            IN  /\ Route(cfg)
                /\ facadeCall' = Throws(StartCall("initialize"), cfg)
                /\ UNCHANGED facade
       ELSE /\ NoRoute
            /\ facadeCall' = [StartCall("initialize") EXCEPT
                                 !.pc = "calling", !.attempt = 1, !.invocations = 1]
            /\ facade' = [facade EXCEPT !.ai = TRUE]
    /\ UNCHANGED <<facadeBreaker, remote>>

\* sendMessage / sendMessageStream, up to the first remote call: startChatSession
\* when there is no chat, then circuitBreaker.execute
FacadeSend(op, createFails) ==
    /\ CanStart
    /\ createFails => ~facade.chat /\ facade.isInitialized /\ facade.ai
    /\ IF ~facade.chat /\ (~facade.isInitialized \/ ~facade.ai)
       THEN LET cfg == InitError("high", MsgNotInitialized, NoOriginal)
            IN  /\ Route(cfg)
                /\ facadeCall' = Throws(StartCall(op), cfg)
                /\ UNCHANGED facade
                /\ UNCHANGED facadeBreaker
       ELSE IF createFails
       THEN LET cfg == InitError("high", MsgCreateChatFailed,
                                 [present |-> TRUE, message |-> remote.error])
            IN  /\ Route(cfg)
                /\ facadeCall' = Throws(StartCall(op), cfg)
                /\ UNCHANGED facade
                /\ UNCHANGED facadeBreaker
       ELSE IF BreakerRejects(facadeBreaker, now)
       THEN LET cfg == SendFailure(op, StrCircuitOpen)
            IN  /\ Route(cfg)
                /\ facadeCall' = [Throws(StartCall(op), cfg) EXCEPT
                                     !.admittedAs = "rejected"]
                /\ facade' = [facade EXCEPT !.chat = TRUE]
                /\ facadeBreaker' = AfterApiHandler(facadeBreaker, cfg)
       ELSE /\ NoRoute
            /\ facadeBreaker' = BreakerAdmits(facadeBreaker)
            /\ facadeCall' = [StartCall(op) EXCEPT
                                 !.pc = "calling", !.attempt = 1, !.invocations = 1,
                                 !.admittedAs = facadeBreaker'.state]
            /\ facade' = [facade EXCEPT !.chat = TRUE]
    /\ UNCHANGED remote

\* the remote call resolves: RetryManager.execute returns success. initialize
\* marks the facade initialized; for a send the breaker runs onSuccess, and
\* sendMessageStream goes on to iterate the stream
RemoteResolves ==
    /\ facadeCall.pc = "calling"
    /\ NoRoute
    /\ facade' = IF facadeCall.op = "initialize"
                 THEN [facade EXCEPT !.isInitialized = TRUE]
                 ELSE facade
    /\ facadeBreaker' = IF facadeCall.op = "initialize" THEN facadeBreaker
                        ELSE BreakerAfterSuccess(facadeBreaker)
    /\ facadeCall' = [facadeCall EXCEPT
                         !.pc = IF facadeCall.op = "sendMessageStream"
                                THEN "streaming" ELSE "returned"]
    /\ UNCHANGED remote

\* the remote call rejects. On the last attempt, or when shouldRetry says no,
\* RetryManager.execute returns the failure, which the caller throws: the catch
\* of initialize, or onFailure of the breaker and the catch of the send.
\* Otherwise onRetry runs and the loop goes to sleep.
RemoteRejects(random) ==
    /\ facadeCall.pc = "calling"
    /\ LET cfg == RetryConfigOf(facadeCall.op)
           raw == remote.error
           gaveUp == IsLastAttempt(facadeCall.attempt, cfg) \/ ~ApiShouldRetry(raw)
           failure == IF facadeCall.op = "initialize"
                      THEN InitError("critical", MsgInitializeFailed,
                                     [present |-> TRUE, message |-> raw])
                      ELSE SendFailure(facadeCall.op, raw)
           notice == RetryNotice(facadeCall.op, facadeCall.attempt, raw)
           slept == [facadeCall EXCEPT
                        !.pc = "sleeping",
                        !.delay = CalculateDelay(facadeCall.attempt, cfg, random),
                        !.delays = Append(@, CalculateDelay(facadeCall.attempt, cfg,
                                                            random))]
       IN  IF gaveUp
           THEN /\ random = 0
                /\ Route(failure)
                /\ facadeCall' = Throws(facadeCall, failure)
                /\ facadeBreaker' =
                       IF facadeCall.op = "initialize" THEN facadeBreaker
                       ELSE AfterApiHandler(BreakerAfterFailure(facadeBreaker, now),
                                            failure)
           ELSE IF facadeCall.op = "initialize"
           THEN /\ NoRoute
                /\ facadeCall' = slept
                /\ UNCHANGED facadeBreaker
           ELSE /\ Route(notice)
                /\ facadeCall' = [slept EXCEPT !.routed = @ + 1]
                /\ facadeBreaker' = AfterApiHandler(facadeBreaker, notice)
    /\ UNCHANGED <<facade, remote>>

\* await this.sleep(delay) ends: the next attempt calls the remote API
FacadeSleepEnds ==
    /\ facadeCall.pc = "sleeping"
    /\ now' = now + facadeCall.delay
    /\ facadeCall' = [facadeCall EXCEPT !.pc = "calling", !.attempt = @ + 1,
                                        !.invocations = @ + 1]
    /\ UNCHANGED <<facade, facadeBreaker, remote>>
    /\ UNCHANGED <<serviceVars, retryVars, breakerVars, limiterVars, observed,
                   hostVars>>

YieldMutant(n, audio) ==
    [chunk |-> n, text |-> TRUE, audio |-> audio # "none", done |-> FALSE]

\* yield { text, audio, candidates, done: false }: audio is undefined unless
\* the chunk has inline audio and atob decoded it
Yield(n, audio) ==
    [chunk |-> n, text |-> TRUE, audio |-> audio = "valid", done |-> FALSE]

\* one chunk of the upstream stream: its inline audio, if any, is decoded, and
\* the chunk is yielded
ChunkArrives(audio) ==
    /\ facadeCall.pc = "streaming"
    /\ Len(facadeCall.upstream) < MaxChunks
    /\ IF audio = "invalid" THEN Route(DecodeFailure) ELSE NoRoute
    /\ facadeCall' = [facadeCall EXCEPT
           !.upstream = Append(@, audio),
           !.routed = IF audio = "invalid" THEN @ + 1 ELSE @,
           !.yielded = Append(@, Yield(Len(facadeCall.upstream) + 1, audio))]
    /\ UNCHANGED <<facade, facadeBreaker, remote>>

\* the upstream stream ends: yield { done: true }
StreamEnds ==
    /\ facadeCall.pc = "streaming"
    /\ NoRoute
    /\ facadeCall' = [facadeCall EXCEPT
           !.pc = "returned",
           !.yielded = Append(@, [chunk |-> 0, text |-> FALSE, audio |-> FALSE,
                                  done |-> TRUE])]
    /\ UNCHANGED <<facade, facadeBreaker, remote>>

\* the upstream stream throws while it is iterated: the inner catch
StreamAborts ==
    /\ facadeCall.pc = "streaming"
    /\ LET cfg == StreamFailure(remote.error)
       IN  /\ Route(cfg)
           /\ facadeCall' = [Throws(facadeCall, cfg) EXCEPT !.pc = "rethrowing"]
           /\ facadeBreaker' = AfterApiHandler(facadeBreaker, cfg)
    /\ UNCHANGED <<facade, remote>>

\* the error the inner catch threw reaches the outer catch
StreamRethrows ==
    /\ facadeCall.pc = "rethrowing"
    /\ LET cfg == SendFailure("sendMessageStream", MessageChars(facadeCall.thrown))
       IN  /\ Route(cfg)
           /\ facadeCall' = Throws(facadeCall, cfg)
           /\ facadeBreaker' = AfterApiHandler(facadeBreaker, cfg)
    /\ UNCHANGED <<facade, remote>>

\* reset()
FacadeReset ==
    /\ CanStart
    /\ NoRoute
    /\ facadeBreaker' = FacadeBreakerFresh
    /\ facade' = [facade EXCEPT !.chat = FALSE]
    /\ facadeCall' = [StartCall("reset") EXCEPT !.pc = "returned"]
    /\ UNCHANGED remote

FacadeDestroyMutant ==
    /\ CanStart
    /\ facadeBreaker' = FacadeBreakerFresh
    /\ facade' = [facade EXCEPT !.chat = FALSE, !.ai = FALSE]
    /\ handlers' = MapDelete(MapDelete(handlers, "api"), "network")
    /\ registryOps' = [registryOps EXCEPT !["api"] = "none", !["network"] = "none"]
    /\ UNCHANGED <<createConfig, created, nextId, stored, lastHandled, handledIds>>
    /\ facadeCall' = [StartCall("destroy") EXCEPT !.pc = "returned"]
    /\ UNCHANGED <<othersOfHandleError, hostVars, remote>>

\* destroy()
FacadeDestroy ==
    /\ CanStart
    /\ facadeBreaker' = FacadeBreakerFresh
    /\ facade' = [facade EXCEPT !.chat = FALSE, !.ai = FALSE,
                                !.isInitialized = FALSE]
    /\ handlers' = MapDelete(MapDelete(handlers, "api"), "network")
    /\ registryOps' = [registryOps EXCEPT !["api"] = "none", !["network"] = "none"]
    /\ UNCHANGED <<createConfig, created, nextId, stored, lastHandled, handledIds>>
    /\ facadeCall' = [StartCall("destroy") EXCEPT !.pc = "returned"]
    /\ UNCHANGED <<othersOfHandleError, hostVars, remote>>

\* before the call, with the breaker open, its cooldown passes
FacadeTimePasses ==
    /\ CanStart
    /\ BreakerRejects(facadeBreaker, now)
    /\ now' = facadeBreaker.lastFailureTime + FacadeBreakerOptions.resetTimeout + 1
    /\ UNCHANGED <<facade, facadeBreaker, facadeCall, remote>>
    /\ UNCHANGED <<serviceVars, retryVars, breakerVars, limiterVars, observed,
                   hostVars>>

FacadeNext ==
    \/ \E apiKey \in ApiKeys : FacadeInitialize(apiKey)
    \/ \E op \in SendOps, createFails \in BOOLEAN : FacadeSend(op, createFails)
    \/ RemoteResolves
    \/ \E random \in 0..(JitterSteps - 1) : RemoteRejects(random)
    \/ FacadeSleepEnds
    \/ \E audio \in AudioKinds : ChunkArrives(audio)
    \/ StreamEnds
    \/ StreamAborts
    \/ StreamRethrows
    \/ FacadeReset
    \/ FacadeDestroy
    \/ FacadeTimePasses

-----------------------------------------------------------------------------
(* Specifications: one component runs, the others stay as constructed *)

\* getInstance not called yet, no event dispatched, the breaker not read, the
\* facade not used
HostIdle ==
    /\ singleton = SingletonFresh
    /\ dispatch = NoDispatch
    /\ observed = NoRead
    /\ facade = FacadeFresh
    /\ facadeBreaker = FacadeBreakerFresh
    /\ facadeCall = NoFacadeCall
    /\ remote = [error |-> MsgBad]

LimiterIdle ==
    /\ bucket = CHOOSE b \in BucketParams : TRUE
    /\ tokens = FromInteger(bucket.capacity)
    /\ lastRefill = 0
    /\ limiterCalls = 0
    /\ limiterLast = NoLimiterCall
    /\ ticking = bucket.capacity * 1000

BreakerIdle ==
    /\ options = CHOOSE o \in BreakerOptions : TRUE
    /\ state = "closed"
    /\ failureCount = 0
    /\ lastFailureTime = 0
    /\ calls = [c \in Callers |-> NoCall]
    /\ consecutive = 0
    /\ resetFrom = "none"

RetryStart == RetryInit /\ BreakerIdle /\ LimiterIdle /\ ServiceIdle /\ now = 0 /\ HostIdle
RetrySpec == RetryStart /\ [][RetryNext]_vars

BreakerStart == BreakerInit /\ RetryInit /\ LimiterIdle /\ ServiceIdle /\ now = 0 /\ HostIdle
BreakerSpec == BreakerStart /\ [][BreakerNext]_vars
BreakerWithoutResetSpec == BreakerStart /\ [][BreakerNextWithoutReset]_vars

LimiterStart == now = 0 /\ LimiterInit /\ RetryInit /\ BreakerIdle /\ ServiceIdle /\ HostIdle
LimiterSpec == LimiterStart /\ [][LimiterNext]_vars

CreateStart == now = 0 /\ CreateInit /\ RetryInit /\ BreakerIdle /\ LimiterIdle /\ HostIdle
CreateSpec == CreateStart /\ [][CreateNext]_vars

HistoryStart == now = 0 /\ HistoryInit /\ RetryInit /\ BreakerIdle /\ LimiterIdle /\ HostIdle
HistorySpec == HistoryStart /\ [][HistoryNext]_vars

ServiceStart == now = 0 /\ ServiceIdle /\ RetryInit /\ BreakerIdle /\ LimiterIdle /\ HostIdle
ServiceSpec == ServiceStart /\ [][ServiceNext]_vars

SharedStoreSpec == HistoryStart /\ [][SharedStoreNext]_vars

BreakerReadSpec == BreakerStart /\ [][BreakerReadNext]_vars

GlobalStart == now = 0 /\ ServiceIdle /\ RetryInit /\ BreakerIdle /\ LimiterIdle /\ HostIdle
GlobalSpec == GlobalStart /\ [][GlobalNext]_vars

FacadeStart == now = 0 /\ FacadeInit /\ RetryInit /\ BreakerIdle /\ LimiterIdle
FacadeSpec == FacadeStart /\ [][FacadeNext]_vars

-----------------------------------------------------------------------------
(* Claims about RetryManager, checked under RetrySpec *)

Returned == rpc = "returned"

\* the retry predicate rejected the latest failure (the loop breaks on it)
Rejected == lastPredicate.attempt > 0 /\ ~lastPredicate.answer

OneTo(n) == [i \in 1..n |-> i]

\* C1, as stated: whenever execute returns success=false (every invocation of the
\* operation failed), the operation was invoked exactly maxAttempts times and the
\* result carries attempts = maxAttempts and the last error.
C1_AsStated ==
    (Returned /\ ~retryResult.success) =>
        /\ invocations = config.maxAttempts
        /\ retryResult.attempts = config.maxAttempts
        /\ retryResult.error = lastFailure.message

\* C1, amended: whenever execute returns success=false without the retry predicate
\* having rejected a failure, the operation was invoked exactly maxAttempts times, and
\* the result carries attempts = maxAttempts and the error of the last invocation.
C1_ExhaustionInvokesMaxAttempts ==
    (Returned /\ ~retryResult.success /\ ~Rejected) =>
        /\ invocations = config.maxAttempts
        /\ lastFailure.attempt = config.maxAttempts
        /\ retryResult.attempts = config.maxAttempts
        /\ retryResult.hasError
        /\ retryResult.error = lastFailure.message

C1_Witness ==
    /\ Returned /\ ~retryResult.success /\ ~Rejected
    /\ config.maxAttempts = 3 /\ invocations = 3

\* C2: when the operation succeeds on its k-th invocation, execute returns
\* success=true with the value the operation resolved with and attempts = k, the
\* operation has been invoked k times and no more, and onRetry has been called with
\* the attempt numbers 1..k-1 in this order.
C2_SuccessAtAttemptK ==
    (Returned /\ retryResult.success) =>
        /\ retryResult.attempts = invocations
        /\ retryResult.attempts <= config.maxAttempts
        /\ retryResult.hasResult
        /\ retryResult.result = resolvedValue
        /\ resolvedValue \in Values
        /\ onRetryLog = OneTo(invocations - 1)

C2_Witness ==
    /\ Returned /\ retryResult.success
    /\ retryResult.attempts = 3 /\ onRetryLog = <<1, 2>>

\* C3: once the retry predicate has rejected the failure of an attempt that is not
\* the last one, execute has returned success=false with that error, the operation
\* is not invoked again, and neither onRetry nor a delay happened for that failure.
C3_RejectionStopsAtOnce ==
    Rejected =>
        /\ lastPredicate.attempt < config.maxAttempts
        /\ Returned
        /\ ~retryResult.success
        /\ retryResult.hasError
        /\ retryResult.error = lastPredicate.message
        /\ lastFailure.attempt = lastPredicate.attempt
        /\ lastFailure.message = lastPredicate.message
        /\ invocations = lastPredicate.attempt
        /\ onRetryLog = OneTo(lastPredicate.attempt - 1)
        /\ Len(delays) = lastPredicate.attempt - 1

C3_Witness ==
    /\ Rejected /\ Returned
    /\ lastPredicate.attempt = 2 /\ config.maxAttempts = 3 /\ invocations = 2

\* C4, as stated: an exception of the onRetry observer never ends execute; the call
\* does not end by throwing.
C4_ObserverFailureIsIsolated == rpc # "thrown"

\* C5, as stated: in executeWithTimeout, after an attempt failed because the timer
\* won the race while attempts remain, execute does not return a failure for it
\* (another attempt follows), whatever the caller's predicate answers.
C5_TimerFailureIsRetried ==
    ~ /\ Returned /\ ~retryResult.success
      /\ config.wrapped
      /\ lastFailure.byTimer
      /\ lastFailure.attempt < config.maxAttempts

\* baseDelay * backoffMultiplier^(k-1) and maxDelay, both times den^(k-1)
ScaledBackoff(k) == config.baseDelay * Pow(config.backoffMultiplier.num, k - 1)
ScaledCap(k) == config.maxDelay * Pow(config.backoffMultiplier.den, k - 1)
Scale(k) == Pow(config.backoffMultiplier.den, k - 1)

\* C6, as stated: with jitter disabled the k-th delay equals exactly
\* min(baseDelay * backoffMultiplier^(k-1), maxDelay).
C6_AsStated ==
    ~config.jitter =>
        \A k \in 1..Len(delays) :
            delays[k] * Scale(k) = Min(ScaledBackoff(k), ScaledCap(k))

ExampleConfig(cfg) ==
    /\ cfg.maxAttempts = 3 /\ cfg.baseDelay = 1000 /\ cfg.backoffMultiplier.num = 2
    /\ cfg.backoffMultiplier.den = 1 /\ cfg.maxDelay = 30000 /\ ~cfg.jitter

\* C6, amended: with jitter disabled the k-th delay is the integer part (floor) of
\* min(baseDelay * backoffMultiplier^(k-1), maxDelay); with baseDelay 1000,
\* multiplier 2 and maxAttempts 3, an operation that fails twice and then succeeds
\* gives the delays 1000 and 2000 and success=true, attempts=3.
C6_DelayIsFloorOfBackoff ==
    /\ ~config.jitter =>
          \A k \in 1..Len(delays) :
              /\ delays[k] * Scale(k) <= Min(ScaledBackoff(k), ScaledCap(k))
              /\ Min(ScaledBackoff(k), ScaledCap(k)) < (delays[k] + 1) * Scale(k)
    /\ (ExampleConfig(config) /\ Returned /\ invocations = 3 /\ retryResult.success) =>
          /\ delays = <<1000, 2000>>
          /\ retryResult.attempts = 3

C6_Witness ==
    /\ ExampleConfig(config) /\ Returned /\ retryResult.success
    /\ invocations = 3 /\ delays = <<1000, 2000>>

\* C7, as stated: the attempts of every returned RetryResult is the number of
\* invocations of the operation made by the call, and lies in 1..maxAttempts.
C7_AttemptsCountsInvocations ==
    Returned =>
        /\ retryResult.attempts = invocations
        /\ 1 <= retryResult.attempts
        /\ retryResult.attempts <= config.maxAttempts

\* C8: every returned RetryResult has exactly one of result and error: success=true
\* with the result set and no error when the last invocation resolved, success=false
\* with the error set and no result when it failed.
C8_ResultXorError ==
    Returned =>
        /\ retryResult.hasResult # retryResult.hasError
        /\ retryResult.success = retryResult.hasResult
        /\ retryResult.success = (resolvedValue \in Values)
        /\ ~retryResult.success = (lastFailure.attempt = invocations)

C8_Witness ==
    /\ Returned /\ ~retryResult.success /\ retryResult.hasError /\ ~retryResult.hasResult
    /\ invocations = 2

-----------------------------------------------------------------------------
(* Claims about CircuitBreaker, checked under BreakerSpec *)

\* the step is caller c entering execute
Enters(c) == calls[c].pc = "idle" /\ calls'[c] # calls[c]
\* the step is the wrapped fn of caller c failing, resolving
Fails(c) == calls[c].pc = "running" /\ calls'[c].outcome = "failed"
Resolves(c) == calls[c].pc = "running" /\ calls'[c].outcome = "ok"

\* C9: counting failed calls since the breaker was last closed with zero failures,
\* a failure that brings the count to failureThreshold (or beyond) leaves the state
\* open, an earlier one leaves it closed; an execute call entered while the state is
\* open and no more than resetTimeout has elapsed since the last failure throws
\* 'Circuit breaker is open' without invoking the wrapped function.
C9_OpensAtThresholdAndRejects ==
    /\ [][\A c \in Callers : Fails(c) =>
            IF consecutive' >= options.failureThreshold
            THEN state' = "open"
            ELSE state' = "closed"]_vars
    /\ [][\A c \in Callers :
            (Enters(c) /\ state = "open" /\ now - lastFailureTime <= options.resetTimeout)
            => /\ calls'[c].pc = "idle"
               /\ calls'[c].outcome = "rejected"
               /\ calls'[c].error = StrCircuitOpen
               /\ ~calls'[c].invoked
               /\ state' = "open"]_vars

C9_Witness ==
    /\ state = "open" /\ options.failureThreshold = 2 /\ consecutive = 2
    /\ \E c \in Callers : calls[c].outcome = "rejected" /\ calls[c].error = StrCircuitOpen

\* C10: an execute call entered while the state is open and more than resetTimeout
\* has elapsed since the last failure makes the state half-open and invokes the
\* wrapped function; when that call succeeds the state becomes closed and the
\* failure count 0.
C10_HalfOpenProbe ==
    /\ [][\A c \in Callers :
            (Enters(c) /\ state = "open" /\ now - lastFailureTime > options.resetTimeout)
            => /\ state' = "half-open"
               /\ calls'[c].pc = "running"
               /\ calls'[c].invoked
               /\ calls'[c].admittedAs = "half-open"]_vars
    /\ [][\A c \in Callers :
            (Resolves(c) /\ calls[c].admittedAs = "half-open")
            => state' = "closed" /\ failureCount' = 0]_vars

C10_Witness ==
    /\ state = "closed" /\ failureCount = 0
    /\ \E c \in Callers : calls[c].admittedAs = "half-open" /\ calls[c].outcome = "ok"

\* C11, as stated: when a call admitted while the breaker was half-open fails, the
\* breaker is left open, the failure counter is incremented and the failure time
\* recorded, whatever the counter and the threshold are at that moment.
C11_HalfOpenFailureReopens ==
    [][\A c \in Callers :
          (Fails(c) /\ calls[c].admittedAs = "half-open")
          => /\ state' = "open"
             /\ failureCount' = failureCount + 1
             /\ lastFailureTime' = now]_vars

\* C12: reset(), called in any state, leaves the breaker closed with failure count
\* 0, and an execute call entered on a closed breaker invokes the wrapped function.
C12_ResetCloses ==
    /\ [][BreakerReset => (state' = "closed" /\ failureCount' = 0)]_vars
    /\ [][\A c \in Callers :
            (Enters(c) /\ resetFrom # "none" /\ state = "closed" /\ failureCount = 0)
            => calls'[c].pc = "running" /\ calls'[c].invoked]_vars
    /\ [](resetFrom # "none" /\ consecutive = 0 => state = "closed" /\ failureCount = 0)

C12_Witness ==
    /\ resetFrom = "half-open" /\ state = "closed" /\ failureCount = 0
    /\ consecutive = 0
    /\ \A c \in Callers : calls[c].pc = "running" /\ calls[c].invoked

-----------------------------------------------------------------------------
(* Claims about RateLimiter, checked under LimiterSpec *)

\* C13: execute admits a call exactly when, after the lazy refill, at least one
\* token is available; it then takes one token and invokes fn. Otherwise it throws
\* 'Rate limit exceeded', does not invoke fn and takes no token. While no time has
\* elapsed since construction with a full bucket of capacity C, the calls admitted
\* are exactly the first C: a rejection happens only once C calls were admitted.
C13_AdmissionTakesOneToken ==
    /\ [][LimiterExecute =>
            LET available == Refilled(tokens, lastRefill, now, bucket)
            IN  IF Floor(available) >= 1
                THEN /\ limiterLast'.outcome = "admitted"
                     /\ limiterCalls' = limiterCalls + 1
                     /\ tokens' = [available EXCEPT !.int = @ - 1]
                ELSE /\ limiterLast'.outcome = "rejected"
                     /\ limiterLast'.error = StrRateLimitExceeded
                     /\ limiterCalls' = limiterCalls
                     /\ tokens' = available]_vars
    /\ [](now = 0 =>
            /\ limiterCalls <= bucket.capacity
            /\ tokens = FromInteger(bucket.capacity - limiterCalls)
            /\ limiterLast.outcome = "rejected" => limiterCalls = bucket.capacity)

C13_Witness ==
    /\ now = 0 /\ bucket.capacity = 2 /\ limiterCalls = 2
    /\ limiterLast.outcome = "rejected" /\ limiterLast.error = StrRateLimitExceeded

-----------------------------------------------------------------------------
(* Claims about ErrorService.createError, checked under CreateSpec *)

\* the createError call has returned
Created == created # NoAppError

\* the rule of the claim for a missing retryable argument, with "contains" read
\* on the message as `sensitive` says: as written, or with case ignored
StatedRetryable(cfg, sensitive) ==
    LET message == IF sensitive THEN cfg.original.message
                   ELSE ToLowerCase(cfg.original.message)
    IN  CASE cfg.type \in {"network", "audio", "speech_recognition"} -> TRUE
          [] cfg.type = "api" ->
               /\ cfg.original.present
               /\ \E part \in {StrTimeout, Str503, Str502, StrRateLimit} :
                     Includes(message, part)
          [] OTHER -> FALSE

\* C14, as stated: retryable is the explicit value when one is given; otherwise true
\* for network, audio and speech recognition, false for validation, initialization
\* and unknown, and for api true exactly when an original error exists whose
\* message contains 'timeout', '503', '502' or 'rate limit'.
C14_AsStated ==
    Created =>
        created.retryable = IF createConfig.retryable.given
                            THEN createConfig.retryable.value
                            ELSE StatedRetryable(createConfig, TRUE)

\* C14, amended: as above, the message of the original error being compared with
\* its case ignored ('Rate limit exceeded' makes an api error retryable).
C14_RetryableIgnoresCase ==
    Created =>
        created.retryable = IF createConfig.retryable.given
                            THEN createConfig.retryable.value
                            ELSE StatedRetryable(createConfig, FALSE)

C14_Witness ==
    /\ Created /\ ~createConfig.retryable.given
    /\ createConfig.type = "api"
    /\ createConfig.original.message = StrRateLimitExceeded
    /\ created.retryable

\* C15, as stated: userMessage is the entry of the (type, severity) table for each
\* of the 7 x 4 combinations, api/medium being 'Service temporarily unavailable.
\* Retrying...', and 'An error occurred. Please try again.' for any type or
\* severity outside the table.
C15_TableOrFallback ==
    /\ UserMessages["api"]["medium"] = "Service temporarily unavailable. Retrying..."
    /\ Created =>
         created.userMessage =
             IF createConfig.type \in ErrorTypes /\ createConfig.severity \in ErrorSeverities
             THEN UserMessages[createConfig.type][createConfig.severity]
             ELSE "An error occurred. Please try again."

-----------------------------------------------------------------------------
(* Claims about the persisted history, checked under HistorySpec *)

\* the step is a handleError call
Handles == lastHandled'.id # lastHandled.id

\* the last n elements of a sequence
LastOf(seq, n) == SubSeq(seq, Len(seq) - n + 1, Len(seq))

\* C16: with the store working, the persisted history holds at most 50 entries, and
\* they are the errors handled most recently (since the history was last cleared),
\* in handling order; a handleError call on a full history evicts the oldest entry,
\* the entry at index 1 moving to index 0, and puts the new error last.
C16_HistoryKeepsLast50 ==
    /\ [](/\ Len(stored) <= 50
          /\ Len(stored) = IF Len(handledIds) <= 50 THEN Len(handledIds) ELSE 50
          /\ [i \in 1..Len(stored) |-> stored[i].id] = LastOf(handledIds, Len(stored)))
    /\ [][(Handles /\ Len(stored) = 50)
          => /\ Len(stored') = 50
             /\ stored'[1] = stored[2]
             /\ \A i \in 1..49 : stored'[i] = stored[i + 1]
             /\ stored'[50].id = lastHandled'.id]_vars

C16_Witness ==
    /\ Len(handledIds) = 52
    /\ Len(stored) = 50
    /\ stored[1].id = 3 /\ stored[50].id = 52

-----------------------------------------------------------------------------
(* Claims about handleError and the handler registry, checked under ServiceSpec *)

\* the handler the registry holds for a type, "none" without one
HandlerFor(type) == IF type \in DOMAIN handlers THEN handlers[type] ELSE "none"

\* what the claims expect handleError to invoke for a type
Expected(type) == IF HandlerFor(type) = "none" THEN <<>> ELSE <<HandlerFor(type)>>

\* C17, as stated: when the store fails on read or on write during handleError, the
\* call returns without throwing, the entries stored before are still there, the
\* handler registered for the type is invoked and a critical error is escalated.
C17_StoreFailureLeavesHistory ==
    [][(Handles /\ lastHandled'.storage \in {"readFails", "writeFails"})
       => /\ lastHandled'.returned
          /\ Len(stored') >= Len(stored)
          /\ \A i \in 1..Len(stored) : stored'[i] = stored[i]
          /\ lastHandled'.invoked = Expected(lastHandled'.type)
          /\ lastHandled'.escalated = (lastHandled'.severity = "critical")]_vars

\* C18, as stated: when the registered handler throws, handleError returns normally,
\* the error has already been appended to the persisted history, a critical error
\* is still escalated, and the handler was invoked once.
C18_AsStated ==
    [][(Handles /\ lastHandled'.handlerThrew)
       => /\ lastHandled'.returned
          /\ stored' # <<>> /\ stored'[Len(stored')].id = lastHandled'.id
          /\ lastHandled'.escalated = (lastHandled'.severity = "critical")
          /\ Len(lastHandled'.invoked) = 1]_vars

\* C18, amended: as above, the error being the last entry of the history unless
\* the write to the store failed, in which case the history is as it was.
C18_HandlerFailureIsIsolated ==
    [][(Handles /\ lastHandled'.handlerThrew)
       => /\ lastHandled'.returned
          /\ IF lastHandled'.storage = "writeFails"
             THEN stored' = stored
             ELSE stored' # <<>> /\ stored'[Len(stored')].id = lastHandled'.id
          /\ lastHandled'.escalated = (lastHandled'.severity = "critical")
          /\ Len(lastHandled'.invoked) = 1]_vars

C18_Witness ==
    /\ lastHandled.handlerThrew /\ lastHandled.returned
    /\ lastHandled.storage = "ok" /\ lastHandled.severity = "critical"
    /\ lastHandled.escalated
    /\ Len(stored) = 2 /\ stored[2].id = lastHandled.id

C20_LastRegistrationWins ==
    /\ [](\A type \in ErrorTypes : HandlerFor(type) = registryOps[type])
    /\ [][Handles =>
            lastHandled'.invoked = IF registryOps[lastHandled'.type] \in Handlers
                                   THEN <<registryOps[lastHandled'.type]>>
                                   ELSE <<>>]_vars

C20_Witness ==
    /\ registryOps["api"] = "h2" /\ registryOps["network"] = "none"
    /\ "network" \notin DOMAIN handlers
    /\ lastHandled.type = "api" /\ lastHandled.invoked = <<"h2">>
    /\ nextId = 3

-----------------------------------------------------------------------------
(* Claims about getInstance and the global listeners, checked under GlobalSpec *)

\* C21: however many times getInstance was called there is one instance and one
\* listener per kind of event, so each error or unhandledrejection event dispatched
\* once the instance exists makes exactly one AppError of type unknown and severity
\* high go through handleError: one new history entry, and the handler registered
\* for 'unknown' invoked once.
C21_OneErrorPerEvent ==
    /\ [](singleton.listeners = IF singleton.instance THEN 1 ELSE 0)
    /\ [](singleton.calls > 0 => singleton.instance)
    /\ []((dispatch.installed /\ dispatch.pending = 0) => dispatch.handled = 1)
    /\ [][dispatch'.handled > dispatch.handled
          => /\ lastHandled'.id # lastHandled.id
             /\ lastHandled'.type = "unknown" /\ lastHandled'.severity = "high"
             /\ Len(stored') = Len(stored) + 1
             /\ stored'[Len(stored')].id = lastHandled'.id
             /\ lastHandled'.invoked = IF "unknown" \in DOMAIN handlers
                                       THEN <<handlers["unknown"]>> ELSE <<>>
             /\ lastHandled'.returned]_vars

C21_Witness ==
    /\ singleton.calls = 2
    /\ dispatch.kind = "unhandledrejection" /\ dispatch.events = 2
    /\ dispatch.pending = 0 /\ dispatch.handled = 1
    /\ lastHandled.invoked = <<"h1">>
    /\ Len(stored) = 2

-----------------------------------------------------------------------------
(* Claims about reading the CircuitBreaker, checked under BreakerReadSpec *)

\* C28: getState and getFailureCount return the state and the counter and change
\* neither them nor the last-failure time; the passing of time changes none of the
\* three either, so an open breaker nobody calls stays open beyond resetTimeout;
\* the three change only in a step of execute or of reset.
C28_OnlyExecuteAndResetChangeState ==
    /\ [][(BreakerGetState \/ BreakerGetFailureCount \/ Tick)
          => UNCHANGED <<state, failureCount, lastFailureTime>>]_vars
    /\ [][BreakerGetState => observed'.state = state]_vars
    /\ [][BreakerGetFailureCount => observed'.count = failureCount]_vars
    /\ [][<<state, failureCount, lastFailureTime>>' # <<state, failureCount, lastFailureTime>>
          => \/ BreakerReset
             \/ \E c \in Callers : \/ BreakerExecute(c)
                                   \/ BreakerFnResolves(c)
                                   \/ BreakerFnRejects(c, MsgBad)]_vars

C28_Witness ==
    /\ state = "open"
    /\ now - lastFailureTime > options.resetTimeout + 1
    /\ observed.op = "getState" /\ observed.state = "open"
    /\ \A c \in Callers : calls[c].pc = "idle"

-----------------------------------------------------------------------------
(* Claims about EnhancedGeminiService, checked under FacadeSpec *)

\* the latest entry of the persisted history
LastStored == stored[Len(stored)]

\* the call has thrown, and the error it routed last is the latest of the history
ThrewRouted(type, severity) ==
    /\ facadeCall.pc = "thrown"
    /\ lastHandled.type = type
    /\ lastHandled.severity = severity
    /\ lastHandled.returned
    /\ Len(stored) > 0
    /\ LastStored.id = lastHandled.id
    /\ LastStored.type = type
    /\ LastStored.severity = severity

FailedInitialize == facadeCall.op = "initialize" /\ facadeCall.pc = "thrown"

\* C22: initialize with an empty credential throws with no remote call; an
\* initialize whose probe fails throws after at most 3 remote calls; each routes
\* one initialization/critical AppError through handleError and leaves
\* isInitialized as it was; isInitialized becomes true only in the step in which
\* the probe of an initialize call resolves.
C22_ProbeGatesInitialization ==
    /\ [][FacadeInitialize("") => FailedInitialize' /\ facadeCall'.invocations = 0]_vars
    /\ [](FailedInitialize =>
            /\ ThrewRouted("initialization", "critical")
            /\ facadeCall.routed = 1
            /\ facadeCall.invocations <= 3
            /\ facadeCall.thrown = UserMessages["initialization"].critical)
    /\ [][FailedInitialize' => facade'.isInitialized = facade.isInitialized]_vars
    /\ [][facade'.isInitialized /\ ~facade.isInitialized =>
            /\ facadeCall.op = "initialize"
            /\ facadeCall.pc = "calling"
            /\ facadeCall'.pc = "returned"]_vars

C22_Witness ==
    /\ FailedInitialize
    /\ facadeCall.invocations = 3
    /\ ~facade.isInitialized
    /\ lastHandled.type = "initialization"

FailedSend == facadeCall.op \in SendOps /\ facadeCall.pc = "thrown"

\* C23: the message a failed sendMessage / sendMessageStream throws is the
\* userMessage of the AppError it routed last, one of two fixed texts chosen by
\* the type of that AppError alone, whatever the text of the remote error.
C23_ThrownMessageIsUserText ==
    FailedSend =>
        /\ Len(stored) > 0
        /\ LastStored.id = lastHandled.id
        /\ facadeCall.thrown = LastStored.userMessage
        /\ facadeCall.thrown = IF LastStored.type = "api"
                               THEN UserMessages["api"].high
                               ELSE UserMessages["initialization"].high

C23_Witness ==
    /\ FailedSend
    /\ remote.error = MsgHttp503
    /\ Len(stored) > 0
    /\ LastStored.originalError.present
    /\ LastStored.originalError.message = MsgHttp503
    /\ facadeCall.thrown = UserMessages["api"].high

\* the send was admitted by the closed breaker and gave up on a remote error
\* the predicate of retryAPICall accepts
GaveUpRetrying ==
    /\ FailedSend
    /\ facadeCall.admittedAs = "closed"
    /\ facadeCall.upstream = <<>>
    /\ ApiShouldRetry(remote.error)
    /\ Len(stored) > 0
    /\ LastStored.message \in {MsgSendFailed, MsgStreamSendFailed}
    /\ LastStored.originalError.message = remote.error

\* C24 as stated: such a send has called the remote API 5 times.
C24_AsStated == GaveUpRetrying => facadeCall.invocations = 5

\* the delay before attempt k + 1: 2000 * 1.5^(k-1) ms, at most 10000, times a
\* jitter factor of 0.5 to 1 (exclusive), rounded down
JitteredDelays(k) ==
    LET nominal2 == Min(2 * 10000, (2 * 2000 * Pow(3, k - 1)) \div Pow(2, k - 1))
    IN  {(nominal2 * (JitterSteps + r)) \div (4 * JitterSteps) :
            r \in 0..(JitterSteps - 1)}

\* C24 (amended): such a send has called the remote API 3 times, the maxRetries
\* of geminiConfig, and has slept twice, first for 2000 ms and then for 3000 ms,
\* each scaled by the jitter factor.
C24_GivesUpAfterMaxRetries ==
    GaveUpRetrying =>
        /\ facadeCall.invocations = 3
        /\ Len(facadeCall.delays) = 2
        /\ \A k \in 1..2 : facadeCall.delays[k] \in JitteredDelays(k)

C24_Witness ==
    /\ GaveUpRetrying
    /\ remote.error = StrRateLimitExceeded
    /\ facadeCall.op = "sendMessageStream"
    /\ facadeCall.delays = <<1000, 1500>>

\* C25 as stated: once initialized, always initialized.
C25_AsStated == [][facade.isInitialized => facade'.isInitialized]_vars

\* C25 (amended): initialize, sendMessage, sendMessageStream and reset leave an
\* initialized facade initialized; destroy makes it not-initialized.
C25_OnlyDestroyUninitializes ==
    /\ [][facade.isInitialized /\ ~FacadeDestroy => facade'.isInitialized]_vars
    /\ [][FacadeDestroy => ~facade'.isInitialized]_vars

C25_Witness ==
    /\ facade.isInitialized
    /\ FailedInitialize
    /\ facadeCall.invocations = 3

\* C26: a send called while the breaker is open and the cooldown has not
\* passed throws without calling the remote API: no attempt, no delay, the
\* breaker unchanged; it routes one api/high AppError that wraps 'Circuit
\* breaker is open' and whose retryable flag is false.
C26_OpenCircuitRejectsUnretryable ==
    /\ [][/\ \E op \in SendOps : FacadeSend(op, FALSE)
          /\ facadeBreaker.state = "open"
          /\ now - facadeBreaker.lastFailureTime <= FacadeBreakerOptions.resetTimeout
          => /\ facadeCall'.admittedAs = "rejected"
             /\ facadeBreaker' = facadeBreaker]_vars
    /\ [](facadeCall.admittedAs = "rejected" =>
            /\ ThrewRouted("api", "high")
            /\ facadeCall.invocations = 0
            /\ facadeCall.attempt = 0
            /\ facadeCall.delays = <<>>
            /\ facadeCall.routed = 1
            /\ LastStored.originalError.message = StrCircuitOpen
            /\ ~LastStored.retryable)

C26_Witness ==
    /\ facadeCall.admittedAs = "rejected"
    /\ facadeCall.op = "sendMessageStream"
    /\ facadeBreaker.state = "open"
    /\ ~LastStored.retryable

\* how many chunks of the upstream stream had inline audio atob rejected
RECURSIVE UndecodedIn(_)
UndecodedIn(chunks) ==
    IF chunks = <<>> THEN 0
    ELSE (IF Head(chunks) = "invalid" THEN 1 ELSE 0) + UndecodedIn(Tail(chunks))

Streaming ==
    facadeCall.op = "sendMessageStream" /\ facadeCall.pc \in {"streaming", "returned"}

\* C27: while sendMessageStream iterates, the n-th element yielded is the n-th
\* upstream chunk with its text, and with audio exactly when its inline audio
\* decoded; a chunk whose audio does not decode routes one audio/medium AppError
\* and the iteration goes on; when the upstream ends after n chunks, n elements
\* with done=false and then one with done=true were yielded.
C27_DecodeFailureKeepsStream ==
    /\ [](Streaming =>
            LET n == Len(facadeCall.upstream)
            IN  /\ Len(facadeCall.yielded) =
                       n + (IF facadeCall.pc = "returned" THEN 1 ELSE 0)
                /\ \A i \in 1..n :
                       facadeCall.yielded[i] =
                           [chunk |-> i, text |-> TRUE,
                            audio |-> facadeCall.upstream[i] = "valid",
                            done |-> FALSE]
                /\ facadeCall.pc = "returned" => facadeCall.yielded[n + 1].done
                /\ facadeCall.routed =
                       (facadeCall.attempt - 1) + UndecodedIn(facadeCall.upstream))
    /\ [][ChunkArrives("invalid") =>
            /\ lastHandled'.type = "audio"
            /\ lastHandled'.severity = "medium"
            /\ Len(stored') = Len(stored) + 1
            /\ facadeCall'.pc = "streaming"]_vars

C27_Witness ==
    /\ facadeCall.op = "sendMessageStream"
    /\ facadeCall.pc = "returned"
    /\ facadeCall.upstream = <<"invalid", "valid">>
    /\ Len(facadeCall.yielded) = 3

-----------------------------------------------------------------------------
(* Claims about the refill of the RateLimiter, checked under LimiterSpec *)

\* C29: every execute call is admitted or rejected by the lazily refilled bucket
\* exactly as by a bucket of the same capacity and rate that a timer refills, and
\* every getAvailableTokens call returns the value that bucket holds: refilling in
\* several steps gives the same tokens as refilling once over the whole time.
C29_LazyMatchesTicking ==
    /\ limiterLast.op = "execute" =>
           limiterLast.outcome = limiterLast.tickingOutcome
    /\ limiterLast.op = "getAvailableTokens" =>
           limiterLast.value = limiterLast.tickingValue

\* the limiter was read by getAvailableTokens and no time has passed since
JustRead == limiterLast.op = "getAvailableTokens" /\ lastRefill = now

\* C30: the tokens of a limiter of capacity C stay within 0..C. getAvailableTokens
\* returns the floor of the refilled tokens, an integer in 0..C, and takes no
\* token; a second getAvailableTokens call with no time elapsed returns the same
\* value and leaves the tokens as they are.
C30_TokensWithinCapacity ==
    /\ [](/\ tokens.int >= 0
          /\ ~LessThan(FromInteger(bucket.capacity), tokens)
          /\ limiterLast.op = "getAvailableTokens" =>
                 limiterLast.value \in 0..bucket.capacity
          /\ JustRead =>
                 /\ limiterLast.value = Floor(tokens)
                 /\ Refilled(tokens, lastRefill, now, bucket) = tokens)
    /\ [][LimiterGetAvailableTokens =>
            /\ limiterLast'.value =
                   Floor(Refilled(tokens, lastRefill, now, bucket))
            /\ ~LessThan(tokens', tokens)
            /\ limiterCalls' = limiterCalls]_vars

C30_Witness ==
    /\ JustRead /\ now > 0 /\ limiterCalls = 1
    /\ tokens.int = 1 /\ tokens.frac # Zeros(FracBits)
    /\ limiterLast.value = 1

-----------------------------------------------------------------------------
(* Claims about the course of a RetryManager call, checked under RetrySpec *)

\* the call returned because the attempts were used up
Exhausted == ~retryResult.success /\ lastFailure.attempt = config.maxAttempts

\* the parts of C31 other than the call never throwing
RunsToCompletion ==
    /\ invocations <= config.maxAttempts
    /\ Len(delays) <= config.maxAttempts - 1
    /\ Returned =>
          /\ Len(delays) = invocations - 1
          /\ \/ retryResult.success /\ ~Rejected /\ ~Exhausted
             \/ ~retryResult.success /\ Rejected /\ ~Exhausted
             \/ ~retryResult.success /\ ~Rejected /\ Exhausted

\* C31, as stated: a call to execute never ends by throwing; it makes at most
\* maxAttempts invocations and at most maxAttempts - 1 delays, and when it has
\* returned it did so in exactly one of three ways (success, rejection by the
\* predicate, attempts used up) with no delay waited after the final attempt.
C31_RunsToCompletion == rpc # "thrown" /\ RunsToCompletion

\* C32, as stated: in executeWithTimeout without a caller's predicate, a failure
\* of the operation itself whose message the default predicate does not accept
\* ends the loop: the call has returned the failure and invokes nothing more.
C32_DefaultPredicateUnderTimeout ==
    ( /\ config.wrapped /\ config.shouldRetry = "default"
      /\ lastFailure.attempt > 0 /\ ~lastFailure.byTimer
      /\ ~DefaultShouldRetry(lastFailure.message) )
    => /\ Returned /\ ~retryResult.success
       /\ invocations = lastFailure.attempt

\* C40, as stated: during executeWithTimeout at most one invocation of the
\* operation is running at any time.
C40_OneInvocationAtATime == config.wrapped => running <= 1

-----------------------------------------------------------------------------
(* Claims about concurrent calls on the CircuitBreaker, checked under BreakerSpec *)

\* C33: in every reachable state, under any interleaving of concurrent execute
\* calls and reset calls, the breaker is closed exactly when its failure count is
\* below failureThreshold; open and half-open both come with a failure count of
\* at least failureThreshold.
C33_ClosedIffBelowThreshold ==
    (state = "closed") <=> (failureCount < options.failureThreshold)

C33_Witness ==
    /\ state = "half-open" /\ failureCount >= options.failureThreshold
    /\ resetFrom # "none"
    /\ \E c \in Callers : calls[c].pc = "running" /\ calls[c].admittedAs = "closed"

\* the probe of the half-open breaker is in flight, made by a caller other than c
ProbeInFlight(c) ==
    /\ state = "half-open"
    /\ \E d \in Callers \ {c} :
          calls[d].pc = "running" /\ calls[d].admittedAs = "half-open"

\* C34, as stated: an execute call entered while the breaker is half-open and the
\* probe has not completed does not invoke the wrapped function.
C34_OneProbeWhileHalfOpen ==
    [][\A c \in Callers :
          (Enters(c) /\ ProbeInFlight(c)) => ~calls'[c].invoked]_vars

\* C35, as stated: an open breaker leaves the open state only by reset() or by an
\* execute call entered after resetTimeout has elapsed since the last failure; the
\* completion of a call admitted earlier does not close it.
C35_OpenLeftByResetOrCooldown ==
    [][(state = "open" /\ state' # "open") =>
          \/ BreakerReset
          \/ \E c \in Callers :
                BreakerExecute(c) /\ CooledDown(now, lastFailureTime, options)]_vars

\* C36: an execute call rejected because the breaker is open leaves the state, the
\* failure count and the last-failure time as they were, so the time from which
\* the breaker may become half-open is not moved by rejected calls.
C36_RejectionChangesNothing ==
    [][\A c \in Callers :
          (Enters(c) /\ calls'[c].outcome = "rejected")
          => /\ state = "open" /\ state' = "open"
             /\ failureCount' = failureCount
             /\ lastFailureTime' = lastFailureTime
             /\ \A t \in 0..MaxClock :
                   CooledDown(t, lastFailureTime', options) =
                       CooledDown(t, lastFailureTime, options)]_vars

C36_Witness ==
    /\ state = "open" /\ now > 0
    /\ now = lastFailureTime + options.resetTimeout
    /\ \A c \in Callers : calls[c].outcome = "rejected"

-----------------------------------------------------------------------------
(* Claims about the breaker and the errors of a send, checked under FacadeSpec *)

\* the breaker admitted the send
Admitted == facadeCall.admittedAs \in {"closed", "half-open"}

\* the send is inside circuitBreaker.execute, in the retry loop
InRetryLoop == facadeCall.op \in SendOps /\ facadeCall.pc \in {"calling", "sleeping"}

\* C37, as stated: every send that fails after the breaker admitted it has raised
\* the failure count by 1, so the count is at least 1 once it has thrown.
C37_AsStated == (FailedSend /\ Admitted) => facadeBreaker.failures >= 1

\* C37, amended: a send whose retry loop gives up raises the failure count of the
\* breaker by exactly 1 in the step in which it throws, however many remote
\* attempts it made, and the breaker is open from the 5th failure in a row; a send
\* whose remote call resolves on any attempt leaves the count 0 and the breaker
\* closed, also when the stream fails later; the steps between leave the breaker
\* alone.
C37_OneFailurePerSend ==
    /\ [][InRetryLoop =>
            IF facadeCall'.pc = "thrown"
            THEN /\ facadeBreaker'.failures = facadeBreaker.failures + 1
                 /\ facadeBreaker'.lastFailureTime = now
                 /\ facadeBreaker'.state =
                        IF facadeBreaker'.failures >= FacadeBreakerOptions.failureThreshold
                        THEN "open" ELSE facadeBreaker.state
            ELSE IF facadeCall'.pc \in {"returned", "streaming"}
            THEN facadeBreaker'.failures = 0 /\ facadeBreaker'.state = "closed"
            ELSE facadeBreaker' = facadeBreaker]_vars
    /\ [][facadeCall.pc \in {"streaming", "rethrowing"} =>
            facadeBreaker' = facadeBreaker]_vars
    /\ []((facadeBreaker.state = "closed") <=>
              (facadeBreaker.failures < FacadeBreakerOptions.failureThreshold))

C37_Witness ==
    /\ FailedSend /\ facadeCall.admittedAs = "closed"
    /\ facadeCall.invocations = 3
    /\ facadeBreaker.state = "open"
    /\ facadeBreaker.failures = FacadeBreakerOptions.failureThreshold

\* how many api/high errors were routed since the history was cleared
ApiHighRouted ==
    Cardinality({i \in 1..Len(stored) :
                    stored[i].type = "api" /\ stored[i].severity = "high"})

\* C38, as stated: a failing send that got as far as the breaker has routed
\* exactly one api/high AppError, the latest one handled, with the handler of
\* ErrorType.API invoked for it once.
C38_OneApiHighPerFailedSend ==
    (FailedSend /\ facadeCall.admittedAs # "none") =>
        /\ ApiHighRouted = 1
        /\ ThrewRouted("api", "high")
        /\ lastHandled.invoked = <<FacadeApiHandler>>

\* the same for the sends that failed in the breaker or in the retry loop
OneApiHighFromRetryLoop ==
    (FailedSend /\ facadeCall.admittedAs # "none"
       /\ (facadeCall.admittedAs = "rejected" \/ facadeBreaker.failures >= 1)) =>
        /\ ApiHighRouted = 1
        /\ ThrewRouted("api", "high")
        /\ lastHandled.invoked = <<FacadeApiHandler>>

-----------------------------------------------------------------------------
(* Claims about the two writers of 'app_errors', checked under SharedStoreSpec *)

\* the entry at index i of the history is no longer in the history after the step
Dropped(i) == \A j \in 1..Len(stored') : stored'[j] # stored[i]

\* C39, as stated: an entry stored by handleError leaves the persisted history
\* only in a step that clears the history, or in an append that is at least the
\* 50th since the entry was stored, whichever writer of 'app_errors' appends.
C39_StoredUntilFiftyLater ==
    [][\A i \in 1..Len(stored) :
          (IsAppError(stored[i]) /\ Dropped(i)) =>
              \/ stored' = <<>>
              \/ Len(stored) - i + 1 >= HistoryLimit]_vars

====
